---- MODULE Spec2Model ----
(***************************************************************************)
(* URL shortener: the Service (internal/app/service/service.go) with its   *)
(* per-user cache, running over the storage backends                       *)
(* (internal/app/storage/memory, file, database), with the                 *)
(* SimpleGenerator as the source of short ids.                             *)
(*                                                                         *)
(* Every Service method is a sequence of atomic steps, one per section of  *)
(* the method that runs under one lock (the cache's RWMutex, the backend's *)
(* RWMutex, one SQL statement or transaction).  Several request threads    *)
(* run methods concurrently.                                               *)
(***************************************************************************)
EXTENDS Naturals, Sequences, FiniteSets, TLC

\* ----------------------------------------------------------------- bounds

\* Longest batch handed to ShortenBatch.
MaxBatch == 2

\* Longest id list handed to DeleteURLs.
MaxDel == 2

\* Longest batch handed to ShortenBatch in the runs of SpecSeq and in the
\* requests of SpecHandlers.
MaxSeqBatch == 1

\* Calls started in a run of the concurrent specification.
MaxCalls == 3

\* Longest batch and longest id list of a call of the concurrent specification.
MaxConcBatch == 1

MaxConcDel == 1

\* Length of the ids of a working generator (app.go builds NewGenerator(8)).
IdLen == 1

\* Longest id list handed to the delete pipeline, longer than its pool.
MaxPipeIDs == 5

\* Most backend calls that fail in one run of the delete pipeline.
MaxPipeFailures == 1

\* The lock-by-lock runs: the number of Service calls in a run.
MaxLockCalls == 2

\* The generator's buffer: the longest buffer, and the Generate calls of one
\* caller.
MaxGenLength == 2

MaxGenCalls == 2

\* The calls of a sequential run over FileStorage, each of which can leave a
\* scheduleSave goroutine behind.
MaxFileCalls == 2

\* The calls handed to the two backends run side by side.
MaxPairCalls == 3

\* The HTTP requests served in a run.
MaxRequests == 3

\* The generator's alphabet, cut down from the 62 letters and digits.
Letters == {"a", "b"}

Users == {"A", "B"}

URLs == {"u", "v"}

Cids == {"c1", "c2"}

Threads == {"t1", "t2"}

\* The one thread of the sequential specification.
SeqThreads == {"t1"}

\* cfg.BaseURL, handed to NewService.
BaseURL == "http://x"

\* ------------------------------------------------------------- generator

RECURSIVE Strs(_)
\* All strings of length n over Letters.
Strs(n) == IF n = 0 THEN {""} ELSE {s \o c : s \in Strs(n - 1), c \in Letters}

\* SimpleGenerator.Generate: fills the buffer of `length` bytes with random
\* letters and returns it as a string; any such string can come out, also
\* one that was returned before.
Generate(length) == Strs(length)

\* The lengths NewGenerator is called with: a working generator, and the
\* misconfigured one whose ids are empty.
GenLengths == {0, IdLen}

\* ----------------------------------------------------------------- models

\* models.UserURL
UserURL(shortURL, originalURL, userID, isDeleted) ==
    [ShortURL |-> shortURL, OriginalURL |-> originalURL,
     UserID |-> userID, IsDeleted |-> isDeleted]

\* fmt.Sprintf("%s/%s", s.BaseURL, shortID)
ShortURLOf(shortID) == BaseURL \o "/" \o shortID

\* The id a short URL of this service ends with (what a client that follows
\* the short URL sends to Get).
IdOfShortURL(shortURL) == SubSeq(shortURL, Len(BaseURL) + 2, Len(shortURL))

\* The elements of a sequence.
Range(seq) == {seq[i] : i \in 1..Len(seq)}

\* ---------------------------------------------------------- memory backend

\* NewMemoryStorage
NewMemoryStorage == <<>>

\* A Save that leaves a record that is already stored as it is.
MemSaveKeepsExisting(m, shortID, originalURL, userID) ==
    IF shortID \in DOMAIN m
    THEN m
    ELSE [x \in DOMAIN m \cup {shortID} |->
            IF x = shortID THEN UserURL(shortID, originalURL, userID, FALSE) ELSE m[x]]

\* MemoryStorage.Save
MemSave(m, shortID, originalURL, userID) ==
    [x \in DOMAIN m \cup {shortID} |->
        IF x = shortID THEN UserURL(shortID, originalURL, userID, FALSE) ELSE m[x]]

\* A FindByOriginalURL that forgets the deleted flag.
MemFindByOriginalURLAnyRecord(m, originalURL) ==
    LET hits == {id \in DOMAIN m : m[id].OriginalURL = originalURL}
    IN  IF hits = {} THEN {""} ELSE hits

\* MemoryStorage.FindByOriginalURL: the ids the map iteration can return.
MemFindByOriginalURL(m, originalURL) ==
    LET hits == {id \in DOMAIN m :
                    m[id].OriginalURL = originalURL /\ ~m[id].IsDeleted}
    IN  IF hits = {} THEN {""} ELSE hits

\* MemoryStorage.SaveBatch: items maps shortID to originalURL.
MemSaveBatch(m, items, userID) ==
    [x \in DOMAIN m \cup DOMAIN items |->
        IF x \in DOMAIN items THEN UserURL(x, items[x], userID, FALSE) ELSE m[x]]

\* A Get that forgets the deleted flag.
MemGetIgnoringDeleted(m, shortID) ==
    IF shortID \notin DOMAIN m
    THEN [url |-> "", found |-> FALSE]
    ELSE [url |-> m[shortID].OriginalURL, found |-> TRUE]

\* MemoryStorage.Get
MemGet(m, shortID) ==
    IF shortID \notin DOMAIN m \/ m[shortID].IsDeleted
    THEN [url |-> "", found |-> FALSE]
    ELSE [url |-> m[shortID].OriginalURL, found |-> TRUE]

\* A GetURLsByUserID that forgets the deleted flag.
MemGetURLsByUserIDWithDeleted(m, userID) ==
    {m[id] : id \in {i \in DOMAIN m : m[i].UserID = userID}}

\* MemoryStorage.GetURLsByUserID: the list, in no particular order.
MemGetURLsByUserID(m, userID) ==
    {m[id] : id \in {i \in DOMAIN m : m[i].UserID = userID /\ ~m[i].IsDeleted}}

\* A DeleteURLs that returns before any record is marked.
MemDeleteURLsDeferred(m, shortIDs, userID) == m

\* A DeleteURLs that forgets the owner check.
MemDeleteURLsAnyOwner(m, shortIDs, userID) ==
    [x \in DOMAIN m |->
        IF x \in Range(shortIDs) THEN [m[x] EXCEPT !.IsDeleted = TRUE] ELSE m[x]]

\* MemoryStorage.DeleteURLs
MemDeleteURLs(m, shortIDs, userID) ==
    [x \in DOMAIN m |->
        IF x \in Range(shortIDs) /\ m[x].UserID = userID
        THEN [m[x] EXCEPT !.IsDeleted = TRUE]
        ELSE m[x]]

\* MemoryStorage.Ping
MemPing == "memory storage does not support database connection check"

\* ------------------------------------------------------------ File backend
\* FileStorage keeps the records in a map as MemoryStorage does.  The
\* operators below give the map a call leaves in fs.urls; a mutating call
\* also sets fs.isDirty and starts a scheduleSave goroutine before it returns,
\* which is MarkDirty.

\* FileStorage.Save: the record stored in fs.urls
FileSave(m, shortID, originalURL, userID) ==
    [x \in DOMAIN m \cup {shortID} |->
        IF x = shortID THEN UserURL(shortID, originalURL, userID, FALSE) ELSE m[x]]

\* FileStorage.FindByOriginalURL: the ids the map iteration can return.
FileFindByOriginalURL(m, originalURL) ==
    LET hits == {id \in DOMAIN m :
                    m[id].OriginalURL = originalURL /\ ~m[id].IsDeleted}
    IN  IF hits = {} THEN {""} ELSE hits

\* FileStorage.SaveBatch: the records stored in fs.urls
FileSaveBatch(m, items, userID) ==
    [x \in DOMAIN m \cup DOMAIN items |->
        IF x \in DOMAIN items THEN UserURL(x, items[x], userID, FALSE) ELSE m[x]]

\* FileStorage.Get
FileGet(m, shortID) ==
    IF shortID \notin DOMAIN m \/ m[shortID].IsDeleted
    THEN [url |-> "", found |-> FALSE]
    ELSE [url |-> m[shortID].OriginalURL, found |-> TRUE]

\* FileStorage.GetURLsByUserID
FileGetURLsByUserID(m, userID) ==
    {m[id] : id \in {i \in DOMAIN m : m[i].UserID = userID /\ ~m[i].IsDeleted}}

\* A DeleteURLs that takes the user's records out of the map.
FileDeleteURLsRemoving(m, shortIDs, userID) ==
    [x \in {y \in DOMAIN m : ~(y \in Range(shortIDs) /\ m[y].UserID = userID)} |->
        m[x]]

\* FileStorage.DeleteURLs: the user's records marked in fs.urls
FileDeleteURLs(m, shortIDs, userID) ==
    [x \in DOMAIN m |->
        IF x \in Range(shortIDs) /\ m[x].UserID = userID
        THEN [m[x] EXCEPT !.IsDeleted = TRUE]
        ELSE m[x]]

\* FileStorage.Ping
FilePing == "file storage does not support database connection check"

\* ------------------------------------------------------------- SQL backend

\* What a failed statement, transaction or connection reports.
DbError == "db error"

\* An InsertURL that overwrites on conflict (ON CONFLICT ... DO UPDATE).
DbInsertURLUpdating(m, shortID, originalURL, userID) ==
    [x \in DOMAIN m \cup {shortID} |->
        IF x = shortID THEN UserURL(shortID, originalURL, userID, FALSE) ELSE m[x]]

\* InsertURL: INSERT ... ON CONFLICT (short_id) DO NOTHING
DbInsertURL(m, shortID, originalURL, userID) ==
    IF shortID \in DOMAIN m
    THEN m
    ELSE [x \in DOMAIN m \cup {shortID} |->
            IF x = shortID THEN UserURL(shortID, originalURL, userID, FALSE) ELSE m[x]]

\* SelectByOriginalURL: ... WHERE original_url = $1 AND is_deleted = FALSE LIMIT 1
DbSelectByOriginalURL(m, originalURL) ==
    {id \in DOMAIN m : m[id].OriginalURL = originalURL /\ ~m[id].IsDeleted}

\* SelectByShortID: ... WHERE short_id = $1 AND is_deleted = FALSE
DbSelectByShortID(m, shortID) ==
    {m[id].OriginalURL : id \in {i \in DOMAIN m : i = shortID /\ ~m[i].IsDeleted}}

\* SelectByUserID, scanned by DatabaseStorage.GetURLsByUserID into
\* models.UserURL{ShortURL: shortID, OriginalURL: originalURL}.
DbSelectByUserID(m, userID) ==
    {UserURL(m[id].ShortURL, m[id].OriginalURL, "", FALSE) :
        id \in {i \in DOMAIN m : m[i].UserID = userID /\ ~m[i].IsDeleted}}

\* InsertURLBatch, once per pair of the batch, in one transaction.
DbInsertURLBatch(m, items, userID) ==
    [x \in DOMAIN m \cup DOMAIN items |->
        IF x \in DOMAIN m THEN m[x] ELSE UserURL(x, items[x], userID, FALSE)]

\* The errors of DatabaseStorage.SaveBatch: of Begin, of an Exec (when the
\* batch has a pair) and of Commit.
DbSaveBatchErrors(items) ==
    {"failed to begin transaction: " \o DbError,
     "failed to commit transaction: " \o DbError}
    \cup (IF DOMAIN items = {} THEN {}
          ELSE {"failed to save batch URL: " \o DbError})

\* DatabaseStorage.SaveBatch: the committed transaction, or an error and the
\* deferred Rollback.
DbSaveBatch(m, items, userID) ==
    {[err |-> "", urls |-> DbInsertURLBatch(m, items, userID)]}
    \cup {[err |-> e, urls |-> m] : e \in DbSaveBatchErrors(items)}

\* UpdateDeleteURLs: UPDATE urls SET is_deleted = TRUE
\*                   WHERE short_id = ANY($1) AND user_id = $2
DbUpdateDeleteURLs(m, shortIDs, userID) ==
    [x \in DOMAIN m |->
        IF x \in Range(shortIDs) /\ m[x].UserID = userID
        THEN [m[x] EXCEPT !.IsDeleted = TRUE]
        ELSE m[x]]

\* ------------------------------------------- the backend behind the Service
\* Each operator gives the set of outcomes of one backend call on the
\* chosen implementation: the error ("" for nil), the value and the store
\* after the call.  The SQL backend can fail at any call.

Impls == {"memory", "file", "sql"}

\* The backends whose calls leave no goroutine behind.  A mutating call of
\* FileStorage starts a scheduleSave goroutine that writes the data file
\* after the call has returned; the Service over FileStorage is run, with
\* these goroutines, in SpecSeq (call by call) and in SpecLocks (lock by
\* lock).
SyncImpls == {"memory", "sql"}

\* URLSaver.Save
BackendSave(kind, m, shortID, originalURL, userID) ==
    IF kind = "memory"
    THEN {[err |-> "", urls |-> MemSave(m, shortID, originalURL, userID)]}
    ELSE IF kind = "file"
    THEN {[err |-> "", urls |-> FileSave(m, shortID, originalURL, userID)]}
    ELSE {[err |-> "", urls |-> DbInsertURL(m, shortID, originalURL, userID)],
          [err |-> "failed to save URL: " \o DbError, urls |-> m]}

\* URLSaver.FindByOriginalURL
BackendFindByOriginalURL(kind, m, originalURL) ==
    IF kind = "memory"
    THEN {[err |-> "", id |-> id] : id \in MemFindByOriginalURL(m, originalURL)}
    ELSE IF kind = "file"
    THEN {[err |-> "", id |-> id] : id \in FileFindByOriginalURL(m, originalURL)}
    ELSE {[err |-> "failed to find URL: " \o DbError, id |-> ""]}
         \cup (IF DbSelectByOriginalURL(m, originalURL) = {}
               THEN {[err |-> "", id |-> ""]}
               ELSE {[err |-> "", id |-> id] :
                        id \in DbSelectByOriginalURL(m, originalURL)})

\* URLBatchSaver.SaveBatch
BackendSaveBatch(kind, m, items, userID) ==
    IF kind = "memory"
    THEN {[err |-> "", urls |-> MemSaveBatch(m, items, userID)]}
    ELSE IF kind = "file"
    THEN {[err |-> "", urls |-> FileSaveBatch(m, items, userID)]}
    ELSE DbSaveBatch(m, items, userID)

\* URLGetter.Get
BackendGet(kind, m, shortID) ==
    IF kind = "memory"
    THEN {MemGet(m, shortID)}
    ELSE IF kind = "file"
    THEN {FileGet(m, shortID)}
    ELSE {[url |-> "", found |-> FALSE]}
         \cup {[url |-> u, found |-> TRUE] : u \in DbSelectByShortID(m, shortID)}

\* URLFetcher.GetURLsByUserID.  DatabaseStorage.GetURLsByUserID fails when
\* the query fails, when a row of its result cannot be scanned (there is a
\* row then) and when rows.Err() reports an error after the last row.
BackendGetURLsByUserID(kind, m, userID) ==
    IF kind = "memory"
    THEN {[err |-> "", list |-> MemGetURLsByUserID(m, userID)]}
    ELSE IF kind = "file"
    THEN {[err |-> "", list |-> FileGetURLsByUserID(m, userID)]}
    ELSE {[err |-> "", list |-> DbSelectByUserID(m, userID)],
          [err |-> "failed to query URLs: " \o DbError, list |-> {}],
          [err |-> "error iterating rows: " \o DbError, list |-> {}]}
         \cup (IF DbSelectByUserID(m, userID) = {} THEN {}
               ELSE {[err |-> "failed to scan row: " \o DbError, list |-> {}]})

\* URLDeleter.DeleteURLs
BackendDeleteURLs(kind, m, shortIDs, userID) ==
    IF kind = "memory"
    THEN {[err |-> "", urls |-> MemDeleteURLs(m, shortIDs, userID)]}
    ELSE IF kind = "file"
    THEN {[err |-> "", urls |-> FileDeleteURLs(m, shortIDs, userID)]}
    ELSE IF Len(shortIDs) = 0
         THEN {[err |-> "", urls |-> m]}
         ELSE {[err |-> "", urls |-> DbUpdateDeleteURLs(m, shortIDs, userID)],
               [err |-> "failed to delete URLs: " \o DbError, urls |-> m]}

\* Pinger.Ping
BackendPing(kind) ==
    IF kind = "memory" THEN {MemPing}
    ELSE IF kind = "file" THEN {FilePing}
    ELSE {"", DbError}

\* ------------------------------------------------------------------ state

VARIABLES
    impl,       \* Storage.impl: the backend NewStorage chose
    genLength,  \* SimpleGenerator.length
    urls,       \* the backend's records: shortID -> models.UserURL
    cache,      \* Service.cache: userID -> the user's list
    pc,         \* where each request thread stands in its Service method
    loc,        \* the method's arguments and locals
    ret,        \* what the thread's last completed call was and returned
    prev,       \* while a call runs: the record of the thread's call before it
    clients,    \* the request threads that call the Service in this run
    calls,      \* the number of calls or requests started (in the bounded runs)
    del,        \* the delete pipeline: shortIDs and userID of its DeleteURLs call
    workers,    \* the number of tokens in the workers channel
    results,    \* the errors waiting in the results channel
    done,       \* whether the done channel is closed
    dispatcher, \* where the dispatching goroutine stands
    worker,     \* per position of shortIDs: where its goroutine stands
    ctxDone,    \* whether the caller's context is cancelled
    caller,     \* where the caller of DeleteURLs stands, and what it returned
    logged,     \* the number of failures the dispatcher logged
    env,        \* NewStorage: its arguments, the database and the data file
    newStorage, \* NewStorage: where the call stands, and the error it returned
    cacheMu,    \* Service.cacheMu (sync.RWMutex)
    mu,         \* MemoryStorage.mu / FileStorage.mu (sync.RWMutex)
    flushLock,  \* FileStorage.flushLock: the goroutine holding it
    isDirty,    \* FileStorage.isDirty
    dataFile,   \* the file at FileStorage.filePath
    tmpFile,    \* the file at FileStorage.filePath + ".tmp"
    flusher,    \* the scheduleSave goroutines: where each stands, its locals
    written,    \* per thread in SaveBatch: the keys of items stored so far
    genMu,      \* SimpleGenerator.mu: the goroutine holding it
    buffer,     \* SimpleGenerator.buffer
    gen,        \* per caller of Generate: where it stands, what it got
    http,       \* per request thread: the HTTP handler it runs, its response
    pair        \* a MemoryStorage given the calls the FileStorage is given

\* The variables of the Service and of its backend.
svcVars == <<impl, genLength, urls, cache, pc, loc, ret, prev, clients, calls>>

\* The variables of the delete pipeline.
pipeVars ==
    <<del, workers, results, done, dispatcher, worker, ctxDone, caller, logged>>

\* The variables of the storage selection.
selVars == <<env, newStorage>>

lockVars == <<cacheMu, mu, flushLock, isDirty, dataFile, tmpFile, flusher, written>>

\* The variables of the generator's buffer.
genVars == <<genMu, buffer, gen>>

\* The variables of the HTTP handlers.
httpVars == <<http>>

\* The variables of the two backends run side by side.
eqVars == <<pair>>

vars == <<svcVars, pipeVars, selVars, lockVars, genVars, httpVars, eqVars>>

\* A sync.RWMutex nobody holds: w is the goroutine holding the write lock, r
\* the goroutines holding a read lock.
RWFree == [w |-> "none", r |-> {}]

\* sync.RWMutex: RLock waits while a writer holds the lock.
CanRLock(l) == l.w = "none"

\* sync.RWMutex.RLock by goroutine g
RLock(l, g) == [l EXCEPT !.r = @ \cup {g}]

\* sync.RWMutex.RUnlock by goroutine g
RUnlock(l, g) == [l EXCEPT !.r = @ \ {g}]

\* sync.RWMutex: Lock waits while anybody holds the lock.
CanLock(l) == l.w = "none" /\ l.r = {}

\* sync.RWMutex.Lock by goroutine g
Lock(l, g) == [l EXCEPT !.w = g]

\* sync.RWMutex.Unlock
Unlock(l) == [l EXCEPT !.w = "none"]

\* A file that does not exist.  Of a file that exists, json tells whether it
\* holds one complete JSON array, and entries is the set of the array's
\* objects.
NoFile == [exists |-> FALSE, json |-> FALSE, entries |-> {}]

\* A call record with nothing in it.
NoCall ==
    [op |-> "none", userID |-> "", originalURL |-> "", items |-> <<>>,
     shortIDs |-> <<>>, shortID |-> "", batch |-> <<>>, correlationMap |-> <<>>,
     list |-> {}, err |-> "", ShortURL |-> "", IsNew |-> FALSE, resp |-> <<>>,
     url |-> "", found |-> FALSE, hadCache |-> FALSE]

\* models.BatchShortenRequest
BatchItems == [CorrelationID : Cids, OriginalURL : URLs]

\* The batches a caller can hand to ShortenBatch.  Correlation ids only name
\* the items, so the first item's is taken to be c1.
Batches(maxLen) ==
    {b \in UNION {[1..n -> BatchItems] : n \in 0..maxLen} :
        Len(b) > 0 => b[1].CorrelationID = "c1"}

\* The id lists a caller can hand to DeleteURLs: ids a generator of the
\* configured length can have produced, stored or not.
IdLists(length, maxLen) == UNION {[1..n -> Generate(length)] : n \in 0..maxLen}

\* The scheduleSave goroutines that can be alive at once: one per mutating
\* call of the runs that are cut at three calls, and no more in any run.
Flushers == <<"f1", "f2", "f3">>

\* A scheduleSave goroutine that is not running.
NoFlusher == [pc |-> "none", entries |-> {}]

\* go fs.scheduleSave(): the first goroutine of Flushers that is not running
\* starts.
GoScheduleSave(fl) ==
    LET i == CHOOSE k \in 1..Len(Flushers) :
                /\ fl[Flushers[k]].pc = "none"
                /\ \A j \in 1..(k - 1) : fl[Flushers[j]].pc # "none"
    IN  [fl EXCEPT ![Flushers[i]].pc = "scheduleSave_flushLock"]

\* What a mutating backend method does besides changing the records:
\* FileStorage sets fs.isDirty = true under its lock and runs
\* go fs.scheduleSave() when it returns (a goroutine of Flushers is left to
\* start); the other backends do neither.
MarkDirty ==
    IF impl = "file"
    THEN /\ \E f \in Range(Flushers) : flusher[f].pc = "none"
         /\ isDirty' = TRUE
         /\ flusher' = GoScheduleSave(flusher)
    ELSE UNCHANGED <<isDirty, flusher>>

\* No pipeline: Service.DeleteURLs of service.go starts no goroutine.
NoPipeline ==
    /\ del = [shortIDs |-> <<>>, userID |-> ""]
    /\ workers = 0
    /\ results = <<>>
    /\ done = FALSE
    /\ dispatcher = [pc |-> "none", i |-> 0, n |-> 0]
    /\ worker = <<>>
    /\ ctxDone = FALSE
    /\ caller = [pc |-> "none", err |-> ""]
    /\ logged = 0

\* The locks are not followed: every method body runs as the steps of the
\* Service actions.  No scheduleSave goroutine runs: the backend is not
\* FileStorage.
NoLocks ==
    /\ cacheMu = RWFree
    /\ mu = RWFree
    /\ flushLock = "none"
    /\ isDirty = FALSE
    /\ dataFile = NoFile
    /\ tmpFile = NoFile
    /\ flusher = <<>>
    /\ written = <<>>

\* The generator's buffer is not followed: Generate is one step that gives a
\* string.
NoGenerator ==
    /\ genMu = "none"
    /\ buffer = <<>>
    /\ gen = <<>>

\* The HTTP handlers are not followed: the Service is called directly.
NoRequests == http = <<>>

\* No pair of backends is run side by side.
NoPair == pair = <<>>

\* NewStorage is not running: the backend was chosen before the Service was
\* built.
NoSelection ==
    /\ env = [databaseDSN |-> "", fileStoragePath |-> "", db |-> "", file |-> ""]
    /\ newStorage = [pc |-> "none", err |-> ""]

\* The Service after NewService, over a fresh backend, with the request
\* threads of the run.
Start(threads) ==
    /\ clients = threads
    /\ impl \in SyncImpls
    /\ genLength \in GenLengths
    /\ urls = NewMemoryStorage
    /\ cache = <<>>
    /\ pc = [t \in Threads |-> "idle"]
    /\ loc = [t \in Threads |-> NoCall]
    /\ ret = [t \in Threads |-> NoCall]
    /\ prev = [t \in Threads |-> NoCall]
    /\ calls = 0
    /\ NoPipeline
    /\ NoSelection
    /\ NoGenerator
    /\ NoPair
    /\ NoRequests
    /\ NoLocks

\* One request thread: its calls come one after the other.
Init == Start(SeqThreads)

\* One request thread over any of the three backends; over FileStorage
\* (NewFileStorage of a path where no file is) with the scheduleSave
\* goroutines its mutating calls start.
InitSeq ==
    /\ clients = SeqThreads
    /\ impl \in Impls
    /\ genLength \in GenLengths
    /\ urls = NewMemoryStorage
    /\ cache = <<>>
    /\ pc = [t \in Threads |-> "idle"]
    /\ loc = [t \in Threads |-> NoCall]
    /\ ret = [t \in Threads |-> NoCall]
    /\ prev = [t \in Threads |-> NoCall]
    /\ calls = 0
    /\ NoPipeline
    /\ NoSelection
    /\ NoGenerator
    /\ NoPair
    /\ NoRequests
    /\ cacheMu = RWFree
    /\ mu = RWFree
    /\ flushLock = "none"
    /\ isDirty = FALSE
    /\ dataFile = NoFile
    /\ tmpFile = NoFile
    /\ flusher = [f \in Range(Flushers) |-> NoFlusher]
    /\ written = <<>>

\* Several request threads: their calls run at once.
InitConc == Start(Threads)

\* Whether the run has request threads that run at once; such a run is cut
\* at MaxCalls calls, with the shorter batches and id lists.
Concurrent == clients # SeqThreads

\* Whether the run is over FileStorage, with its scheduleSave goroutines;
\* such a run is cut at MaxFileCalls calls.
Flushing == impl = "file"

\* Thread t is a request thread of the run, between calls, and may start one.
CanStart(t) ==
    /\ t \in clients
    /\ pc[t] = "idle"
    /\ Concurrent => calls < MaxCalls
    /\ Flushing => calls < MaxFileCalls

\* The calls started, counted in the runs that are cut.
Tally(t) ==
    /\ calls' = IF pc[t] = "idle" /\ (Concurrent \/ Flushing)
                THEN calls + 1 ELSE calls
    /\ UNCHANGED clients
    /\ UNCHANGED pipeVars
    /\ UNCHANGED selVars
    /\ UNCHANGED <<genVars, eqVars, httpVars>>
    /\ UNCHANGED <<cacheMu, mu, flushLock, dataFile, tmpFile, written>>

\* A Service that forgets the invalidation: the entry stays.
CacheDeleteForgotten(c, userID) == c

\* delete(s.cache, userID)
CacheDelete(c, userID) == [x \in DOMAIN c \ {userID} |-> c[x]]

\* s.cache[userID] = urls
CachePut(c, userID, list) ==
    [x \in DOMAIN c \cup {userID} |-> IF x = userID THEN list ELSE c[x]]

\* The calls whose result the properties below relate to the call made just
\* before them; ShortenBatch is never the later call of such a pair.
LaterCalls == {"ShortenURL", "GetURLsByUserID", "DeleteURLs"}

\* The method goes on at label l with locals r.  A call that starts takes
\* the record of the thread's last call along.
Goto(t, l, r) ==
    /\ Tally(t)
    /\ pc' = [pc EXCEPT ![t] = l]
    /\ loc' = [loc EXCEPT ![t] = r]
    /\ IF pc[t] = "idle"
       THEN /\ prev' = [prev EXCEPT ![t] =
                        IF r.op \in LaterCalls THEN ret[t] ELSE NoCall]
            /\ ret' = [ret EXCEPT ![t] = NoCall]
       ELSE UNCHANGED <<ret, prev>>
    /\ UNCHANGED <<isDirty, flusher>>

\* The method returns: r records the call, its arguments and its results
\* (the method's other locals are gone).
Returned(t, r) ==
    /\ Tally(t)
    /\ pc' = [pc EXCEPT ![t] = "idle"]
    /\ loc' = [loc EXCEPT ![t] = NoCall]
    /\ ret' = [ret EXCEPT ![t] =
                [r EXCEPT !.batch = <<>>, !.correlationMap = <<>>,
                          !.shortID = IF r.op = "Get" THEN r.shortID ELSE ""]]
    /\ prev' = [prev EXCEPT ![t] = NoCall]

\* The method returns from a step that made no mutating backend call.
Return(t, r) ==
    /\ Returned(t, r)
    /\ UNCHANGED <<isDirty, flusher>>

\* The record of the call thread t made just before the call it is in now
\* (a call that returns in its first step still has that record in ret).
Before(t) == IF pc[t] = "idle" THEN ret[t] ELSE prev[t]

\* Thread t returns from a call of method op in this step.
Returns(t, op) ==
    /\ pc'[t] = "idle"
    /\ ret'[t].op = op
    /\ pc[t] # "idle" \/ ret'[t] # ret[t]

\* The ids of the live records of originalURL.
LiveIDs(m, originalURL) ==
    {id \in DOMAIN m : m[id].OriginalURL = originalURL /\ ~m[id].IsDeleted}

\* -------------------------------------------------------- Service.ShortenURL

\* A ShortenURL that takes a failed lookup for "not found".
ShortenURL_FindErrorAsMiss(t, originalURL, userID) ==
    /\ CanStart(t)
    /\ CanRLock(mu)
    /\ \E f \in BackendFindByOriginalURL(impl, urls, originalURL) :
        LET call == [NoCall EXCEPT !.op = "ShortenURL", !.userID = userID,
                                   !.originalURL = originalURL,
                                   !.hadCache = userID \in DOMAIN cache]
        IN  IF f.id # ""
            THEN Return(t, [call EXCEPT !.ShortURL = ShortURLOf(f.id),
                                        !.IsNew = FALSE])
            ELSE Goto(t, "ShortenURL_Generate", call)
    /\ UNCHANGED <<impl, genLength, urls, cache>>

\* ShortenURL, lines 67-77: the dedup lookup and its two early returns.
ShortenURL_Find(t, originalURL, userID) ==
    /\ CanStart(t)
    /\ CanRLock(mu)
    /\ \E f \in BackendFindByOriginalURL(impl, urls, originalURL) :
        LET call == [NoCall EXCEPT !.op = "ShortenURL", !.userID = userID,
                                   !.originalURL = originalURL,
                                   !.hadCache = userID \in DOMAIN cache]
        IN  IF f.err # ""
            THEN Return(t, [call EXCEPT !.err = "error finding URL: " \o f.err])
            ELSE IF f.id # ""
            THEN Return(t, [call EXCEPT !.ShortURL = ShortURLOf(f.id),
                                        !.IsNew = FALSE])
            ELSE Goto(t, "ShortenURL_Generate", call)
    /\ UNCHANGED <<impl, genLength, urls, cache>>

\* A ShortenURL that does not look at the id the generator gave.
ShortenURL_GenerateUnchecked(t) ==
    /\ pc[t] = "ShortenURL_Generate"
    /\ \E shortID \in Generate(genLength) :
        /\ cache' = CacheDelete(cache, loc[t].userID)
        /\ Goto(t, "ShortenURL_Save", [loc[t] EXCEPT !.shortID = shortID])
    /\ UNCHANGED <<impl, genLength, urls>>

\* ShortenURL, lines 79-86: the new id, and the cache entry dropped.
ShortenURL_Generate(t) ==
    /\ pc[t] = "ShortenURL_Generate"
    /\ \E shortID \in Generate(genLength) :
        IF shortID = ""
        THEN /\ Return(t, [loc[t] EXCEPT !.err = "failed to generate short ID"])
             /\ UNCHANGED cache
        ELSE /\ cache' = CacheDelete(cache, loc[t].userID)
             /\ Goto(t, "ShortenURL_Save", [loc[t] EXCEPT !.shortID = shortID])
    /\ UNCHANGED <<impl, genLength, urls>>

\* A ShortenURL that puts a cache entry back when Save fails.
ShortenURL_SaveRollback(t) ==
    /\ pc[t] = "ShortenURL_Save"
    /\ CanLock(mu)
    /\ \E s \in BackendSave(impl, urls, loc[t].shortID, loc[t].originalURL,
                            loc[t].userID) :
        /\ urls' = s.urls
        /\ IF s.err # ""
           THEN /\ Returned(t, [loc[t] EXCEPT !.err = "error saving URL: " \o s.err])
                /\ cache' = CachePut(cache, loc[t].userID, {})
           ELSE /\ Returned(t, [loc[t] EXCEPT
                                !.ShortURL = ShortURLOf(loc[t].shortID),
                                !.IsNew = TRUE])
                /\ UNCHANGED cache
    /\ UNCHANGED <<impl, genLength>>
    /\ MarkDirty

\* ShortenURL, lines 88-95: the record saved and the result.
ShortenURL_Save(t) ==
    /\ pc[t] = "ShortenURL_Save"
    /\ CanLock(mu)
    /\ \E s \in BackendSave(impl, urls, loc[t].shortID, loc[t].originalURL,
                            loc[t].userID) :
        /\ urls' = s.urls
        /\ IF s.err # ""
           THEN Returned(t, [loc[t] EXCEPT !.err = "error saving URL: " \o s.err])
           ELSE Returned(t, [loc[t] EXCEPT
                                !.ShortURL = ShortURLOf(loc[t].shortID),
                                !.IsNew = TRUE])
    /\ UNCHANGED <<impl, genLength, cache>>
    /\ MarkDirty

\* ------------------------------------------------------ Service.ShortenBatch

\* batch[shortID] = item.OriginalURL for each item in turn: a later item
\* with the same id replaces an earlier one.
BatchMap(items, ids) ==
    [s \in Range(ids) |->
        items[CHOOSE i \in 1..Len(ids) :
                /\ ids[i] = s
                /\ \A j \in (i + 1)..Len(ids) : ids[j] # s].OriginalURL]

\* correlationMap[item.CorrelationID] = shortID for each item in turn.
CorrelationMap(items, ids) ==
    [c \in {items[i].CorrelationID : i \in 1..Len(items)} |->
        ids[CHOOSE i \in 1..Len(items) :
                /\ items[i].CorrelationID = c
                /\ \A j \in (i + 1)..Len(items) : items[j].CorrelationID # c]]

\* models.BatchShortenResponse for each item, in input order.
BatchResponse(items, correlationMap) ==
    [i \in 1..Len(items) |->
        [CorrelationID |-> items[i].CorrelationID,
         ShortURL |-> ShortURLOf(correlationMap[items[i].CorrelationID])]]

\* ShortenBatch, lines 110-122: one id per item, and the cache entry dropped.
ShortenBatch_Generate(t, items, userID) ==
    /\ CanStart(t)
    /\ \E ids \in [1..Len(items) -> Generate(genLength)] :
        /\ cache' = CacheDelete(cache, userID)
        /\ Goto(t, "ShortenBatch_Save",
                [NoCall EXCEPT !.op = "ShortenBatch", !.userID = userID,
                               !.items = items,
                               !.batch = BatchMap(items, ids),
                               !.correlationMap = CorrelationMap(items, ids),
                               !.hadCache = userID \in DOMAIN cache])
    /\ UNCHANGED <<impl, genLength, urls>>

\* ShortenBatch, lines 124-137: the batch saved and the responses built.
\* The error prefix "ошибка сохранения пакета URL: " is written in English.
ShortenBatch_Save(t) ==
    /\ pc[t] = "ShortenBatch_Save"
    /\ CanLock(mu)
    /\ \E s \in BackendSaveBatch(impl, urls, loc[t].batch, loc[t].userID) :
        /\ urls' = s.urls
        /\ IF s.err # ""
           THEN Returned(t, [loc[t] EXCEPT !.err = "error saving URL batch: " \o s.err])
           ELSE Returned(t, [loc[t] EXCEPT
                    !.resp = BatchResponse(loc[t].items, loc[t].correlationMap)])
    /\ UNCHANGED <<impl, genLength, cache>>
    /\ MarkDirty

\* --------------------------------------------------- Service.GetURLsByUserID

\* A Service that prefixes an entry's short URL a second time.
RewriteShortURLsTwice(list) ==
    {[e EXCEPT !.ShortURL = ShortURLOf(ShortURLOf(e.ShortURL))] : e \in list}

\* urls[i].ShortURL = fmt.Sprintf("%s/%s", s.BaseURL, urls[i].ShortURL)
RewriteShortURLs(list) ==
    {[e EXCEPT !.ShortURL = ShortURLOf(e.ShortURL)] : e \in list}

\* GetURLsByUserID, lines 164-169: the cache probe under the read lock.
GetURLsByUserID_Probe(t, userID) ==
    /\ CanStart(t)
    /\ LET call == [NoCall EXCEPT !.op = "GetURLsByUserID", !.userID = userID,
                                  !.hadCache = userID \in DOMAIN cache]
       IN  IF userID \in DOMAIN cache
           THEN Return(t, [call EXCEPT !.list = cache[userID]])
           ELSE Goto(t, "GetURLsByUserID_Fetch", call)
    /\ UNCHANGED <<impl, genLength, urls, cache>>

\* GetURLsByUserID, lines 171-178: the backend fetch and the rewrite.
\* The error prefix "ошибка получения URL пользователя: " is written in English.
GetURLsByUserID_Fetch(t) ==
    /\ pc[t] = "GetURLsByUserID_Fetch"
    /\ CanRLock(mu)
    /\ \E f \in BackendGetURLsByUserID(impl, urls, loc[t].userID) :
        IF f.err # ""
        THEN Return(t, [loc[t] EXCEPT !.err = "error getting user URLs: " \o f.err])
        ELSE Goto(t, "GetURLsByUserID_Store",
                  [loc[t] EXCEPT !.list = RewriteShortURLs(f.list)])
    /\ UNCHANGED <<impl, genLength, urls, cache>>

\* GetURLsByUserID, lines 180-184: the list stored under the write lock.
GetURLsByUserID_Store(t) ==
    /\ pc[t] = "GetURLsByUserID_Store"
    /\ cache' = CachePut(cache, loc[t].userID, loc[t].list)
    /\ Return(t, loc[t])
    /\ UNCHANGED <<impl, genLength, urls>>

\* -------------------------------------------------------- Service.DeleteURLs

\* DeleteURLs, lines 198-200: the cache entry dropped.
DeleteURLs_Invalidate(t, shortIDs, userID) ==
    /\ CanStart(t)
    /\ cache' = CacheDelete(cache, userID)
    /\ Goto(t, "DeleteURLs_Backend",
            [NoCall EXCEPT !.op = "DeleteURLs", !.userID = userID,
                           !.shortIDs = shortIDs,
                           !.hadCache = userID \in DOMAIN cache])
    /\ UNCHANGED <<impl, genLength, urls>>

\* A DeleteURLs that only logs the backend's error and returns nil.
DeleteURLs_BackendLogged(t) ==
    /\ pc[t] = "DeleteURLs_Backend"
    /\ CanLock(mu)
    /\ \E d \in BackendDeleteURLs(impl, urls, loc[t].shortIDs, loc[t].userID) :
        /\ urls' = d.urls
        /\ Returned(t, loc[t])
    /\ UNCHANGED <<impl, genLength, cache>>
    /\ MarkDirty

\* DeleteURLs, line 202: the backend's DeleteURLs and its error.
DeleteURLs_Backend(t) ==
    /\ pc[t] = "DeleteURLs_Backend"
    /\ CanLock(mu)
    /\ \E d \in BackendDeleteURLs(impl, urls, loc[t].shortIDs, loc[t].userID) :
        /\ urls' = d.urls
        /\ Returned(t, [loc[t] EXCEPT !.err = d.err])
    /\ UNCHANGED <<impl, genLength, cache>>
    /\ MarkDirty

\* ------------------------------------------------- Service.Get, Service.Ping

\* Service.Get
Get(t, shortID) ==
    /\ CanStart(t)
    /\ CanRLock(mu)
    /\ \E g \in BackendGet(impl, urls, shortID) :
        Return(t, [NoCall EXCEPT !.op = "Get", !.shortID = shortID,
                                 !.url = g.url, !.found = g.found])
    /\ UNCHANGED <<impl, genLength, urls, cache>>

\* A Ping that wraps the backend's error in one of its own.
PingWrapped(t) ==
    /\ CanStart(t)
    /\ \E e \in BackendPing(impl) :
        Return(t, [NoCall EXCEPT !.op = "Ping",
                                 !.err = IF e = "" THEN "" ELSE "ping failed: " \o e])
    /\ UNCHANGED <<impl, genLength, urls, cache>>

\* Service.Ping
Ping(t) ==
    /\ CanStart(t)
    /\ \E e \in BackendPing(impl) :
        Return(t, [NoCall EXCEPT !.op = "Ping", !.err = e])
    /\ UNCHANGED <<impl, genLength, urls, cache>>

\* ------------------------------------- FileStorage.scheduleSave, saveToFile

\* In the strings of this model "~" stands for a byte that is not valid UTF-8
\* and "^" for the replacement character U+FFFD.
RECURSIVE ToValidUTF8(_)

\* encoding/json writes a Go string coerced to valid UTF-8: every invalid
\* byte becomes U+FFFD.
ToValidUTF8(s) ==
    IF Len(s) = 0
    THEN ""
    ELSE (IF SubSeq(s, 1, 1) = "~" THEN "^" ELSE SubSeq(s, 1, 1))
            \o ToValidUTF8(SubSeq(s, 2, Len(s)))

\* encoding/json of one models.UserURL: is_deleted has omitempty, so it is
\* written only when it is true.
EncodeEntry(e) ==
    IF e.IsDeleted
    THEN [short_url |-> ToValidUTF8(e.ShortURL),
          original_url |-> ToValidUTF8(e.OriginalURL),
          user_id |-> ToValidUTF8(e.UserID), is_deleted |-> TRUE]
    ELSE [short_url |-> ToValidUTF8(e.ShortURL),
          original_url |-> ToValidUTF8(e.OriginalURL),
          user_id |-> ToValidUTF8(e.UserID)]

\* encoder.Encode(entries): the JSON array, as the set of its objects.
Encode(entries) == {EncodeEntry(e) : e \in entries}

\* for _, url := range fs.urls { entries = append(entries, url) }
Entries(m) == {m[x] : x \in DOMAIN m}

\* Flusher f moves on to step l.
FlusherStep(f, l) == flusher' = [flusher EXCEPT ![f].pc = l]

\* scheduleSave returns: the deferred fs.flushLock.Unlock() runs and the
\* goroutine ends.
FlusherExit(f) ==
    /\ flusher' = [flusher EXCEPT ![f] = NoFlusher]
    /\ flushLock' = "none"

\* A scheduleSave that does not take the flush mutex.
scheduleSave_flushLockSkipped(f) ==
    /\ flusher[f].pc = "scheduleSave_flushLock"
    /\ UNCHANGED flushLock
    /\ FlusherStep(f, "scheduleSave_muRLock")
    /\ UNCHANGED <<svcVars, pipeVars, selVars, genVars, eqVars, httpVars>>
    /\ UNCHANGED <<cacheMu, mu, isDirty, dataFile, tmpFile, written>>

\* scheduleSave, line 221: fs.flushLock.Lock()
scheduleSave_flushLock(f) ==
    /\ flusher[f].pc = "scheduleSave_flushLock"
    /\ flushLock = "none"
    /\ flushLock' = f
    /\ FlusherStep(f, "scheduleSave_muRLock")
    /\ UNCHANGED <<svcVars, pipeVars, selVars, genVars, eqVars, httpVars>>
    /\ UNCHANGED <<cacheMu, mu, isDirty, dataFile, tmpFile, written>>

\* scheduleSave, line 224: fs.mu.RLock()
scheduleSave_muRLock(f) ==
    /\ flusher[f].pc = "scheduleSave_muRLock"
    /\ CanRLock(mu)
    /\ mu' = RLock(mu, f)
    /\ FlusherStep(f, "scheduleSave_muRUnlock")
    /\ UNCHANGED <<svcVars, pipeVars, selVars, genVars, eqVars, httpVars>>
    /\ UNCHANGED <<cacheMu, flushLock, isDirty, dataFile, tmpFile, written>>

\* scheduleSave, lines 225-230: dirty := fs.isDirty; fs.mu.RUnlock(); nothing
\* more to do when the storage is clean.
scheduleSave_muRUnlock(f) ==
    /\ flusher[f].pc = "scheduleSave_muRUnlock"
    /\ mu' = RUnlock(mu, f)
    /\ IF isDirty
       THEN FlusherStep(f, "saveToFile_Create") /\ UNCHANGED flushLock
       ELSE FlusherExit(f)
    /\ UNCHANGED <<svcVars, pipeVars, selVars, genVars, eqVars, httpVars>>
    /\ UNCHANGED <<cacheMu, isDirty, dataFile, tmpFile, written>>

\* saveToFile, lines 236-240: os.Create(tmpFile), which can fail; the file
\* it makes or truncates is empty.
saveToFile_Create(f) ==
    /\ flusher[f].pc = "saveToFile_Create"
    /\ \/ /\ tmpFile' = [exists |-> TRUE, json |-> FALSE, entries |-> {}]
          /\ FlusherStep(f, "saveToFile_muRLock")
          /\ UNCHANGED flushLock
       \/ /\ FlusherExit(f)
          /\ UNCHANGED tmpFile
    /\ UNCHANGED <<svcVars, pipeVars, selVars, genVars, eqVars, httpVars>>
    /\ UNCHANGED <<cacheMu, mu, isDirty, dataFile, written>>

\* saveToFile, line 243: fs.mu.RLock()
saveToFile_muRLock(f) ==
    /\ flusher[f].pc = "saveToFile_muRLock"
    /\ CanRLock(mu)
    /\ mu' = RLock(mu, f)
    /\ FlusherStep(f, "saveToFile_muRUnlock")
    /\ UNCHANGED <<svcVars, pipeVars, selVars, genVars, eqVars, httpVars>>
    /\ UNCHANGED <<cacheMu, flushLock, isDirty, dataFile, tmpFile, written>>

\* saveToFile, lines 244-248: every record of the map copied into entries;
\* fs.mu.RUnlock()
saveToFile_muRUnlock(f) ==
    /\ flusher[f].pc = "saveToFile_muRUnlock"
    /\ mu' = RUnlock(mu, f)
    /\ flusher' = [flusher EXCEPT ![f].pc = "saveToFile_Encode",
                                  ![f].entries = Entries(urls)]
    /\ UNCHANGED <<svcVars, pipeVars, selVars, genVars, eqVars, httpVars>>
    /\ UNCHANGED <<cacheMu, flushLock, isDirty, dataFile, tmpFile, written>>

\* saveToFile, lines 250-264: the entries encoded into the temporary file,
\* the writer flushed and the file closed; each can fail, and then nothing
\* that was written is used.
saveToFile_Encode(f) ==
    /\ flusher[f].pc = "saveToFile_Encode"
    /\ \/ /\ tmpFile' = [exists |-> TRUE, json |-> TRUE,
                          entries |-> Encode(flusher[f].entries)]
          /\ FlusherStep(f, "saveToFile_Rename")
          /\ UNCHANGED flushLock
       \/ /\ FlusherExit(f)
          /\ UNCHANGED tmpFile
    /\ UNCHANGED <<svcVars, pipeVars, selVars, genVars, eqVars, httpVars>>
    /\ UNCHANGED <<cacheMu, mu, isDirty, dataFile, written>>

\* saveToFile, lines 266-268: os.Rename(tmpFile, fs.filePath), which can fail.
saveToFile_Rename(f) ==
    /\ flusher[f].pc = "saveToFile_Rename"
    /\ \/ /\ dataFile' = tmpFile
          /\ tmpFile' = NoFile
          /\ FlusherStep(f, "saveToFile_muLock")
          /\ UNCHANGED flushLock
       \/ /\ FlusherExit(f)
          /\ UNCHANGED <<dataFile, tmpFile>>
    /\ UNCHANGED <<svcVars, pipeVars, selVars, genVars, eqVars, httpVars>>
    /\ UNCHANGED <<cacheMu, mu, isDirty, written>>

\* saveToFile, line 270: fs.mu.Lock()
saveToFile_muLock(f) ==
    /\ flusher[f].pc = "saveToFile_muLock"
    /\ CanLock(mu)
    /\ mu' = Lock(mu, f)
    /\ FlusherStep(f, "saveToFile_muUnlock")
    /\ UNCHANGED <<svcVars, pipeVars, selVars, genVars, eqVars, httpVars>>
    /\ UNCHANGED <<cacheMu, flushLock, isDirty, dataFile, tmpFile, written>>

\* saveToFile, lines 271-274: fs.isDirty = false; fs.mu.Unlock(); return nil
saveToFile_muUnlock(f) ==
    /\ flusher[f].pc = "saveToFile_muUnlock"
    /\ isDirty' = FALSE
    /\ mu' = Unlock(mu)
    /\ FlusherExit(f)
    /\ UNCHANGED <<svcVars, pipeVars, selVars, genVars, eqVars, httpVars>>
    /\ UNCHANGED <<cacheMu, dataFile, tmpFile, written>>

\* One step of a scheduleSave goroutine.
Flush(f) ==
    \/ scheduleSave_flushLock(f)
    \/ scheduleSave_muRLock(f)
    \/ scheduleSave_muRUnlock(f)
    \/ saveToFile_Create(f)
    \/ saveToFile_muRLock(f)
    \/ saveToFile_muRUnlock(f)
    \/ saveToFile_Encode(f)
    \/ saveToFile_Rename(f)
    \/ saveToFile_muLock(f)
    \/ saveToFile_muUnlock(f)

\* ---------------------------------------------------------- specifications

\* The longest batch and the longest id list of a call in this run.
BatchBound == IF Concurrent THEN MaxConcBatch ELSE MaxBatch

DelBound == IF Concurrent THEN MaxConcDel ELSE MaxDel

\* One step of one request thread in one of the Service's methods.
Next ==
    \/ \E t \in Threads, u \in URLs, w \in Users : ShortenURL_Find(t, u, w)
    \/ \E t \in Threads : ShortenURL_Generate(t)
    \/ \E t \in Threads : ShortenURL_Save(t)
    \/ \E t \in Threads, items \in Batches(BatchBound), w \in Users :
            ShortenBatch_Generate(t, items, w)
    \/ \E t \in Threads : ShortenBatch_Save(t)
    \/ \E t \in Threads, w \in Users : GetURLsByUserID_Probe(t, w)
    \/ \E t \in Threads : GetURLsByUserID_Fetch(t)
    \/ \E t \in Threads : GetURLsByUserID_Store(t)
    \/ \E t \in Threads, ids \in IdLists(genLength, DelBound), w \in Users :
            DeleteURLs_Invalidate(t, ids, w)
    \/ \E t \in Threads : DeleteURLs_Backend(t)
    \/ \E t \in Threads, id \in Generate(genLength) : Get(t, id)
    \/ \E t \in Threads : Ping(t)

\* Calls made one after the other, any number of them.
Spec == Init /\ [][Next]_vars

\* One step of the one request thread, with the batches cut at MaxSeqBatch
\* items, or one step of a scheduleSave goroutine.
NextSeq ==
    \/ \E t \in Threads, u \in URLs, w \in Users : ShortenURL_Find(t, u, w)
    \/ \E t \in Threads : ShortenURL_Generate(t)
    \/ \E t \in Threads : ShortenURL_Save(t)
    \/ \E t \in Threads, items \in Batches(MaxSeqBatch), w \in Users :
            ShortenBatch_Generate(t, items, w)
    \/ \E t \in Threads : ShortenBatch_Save(t)
    \/ \E t \in Threads, w \in Users : GetURLsByUserID_Probe(t, w)
    \/ \E t \in Threads : GetURLsByUserID_Fetch(t)
    \/ \E t \in Threads : GetURLsByUserID_Store(t)
    \/ \E t \in Threads, ids \in IdLists(genLength, MaxDel), w \in Users :
            DeleteURLs_Invalidate(t, ids, w)
    \/ \E t \in Threads : DeleteURLs_Backend(t)
    \/ \E t \in Threads, id \in Generate(genLength) : Get(t, id)
    \/ \E t \in Threads : Ping(t)
    \/ \E f \in Range(Flushers) : Flush(f)

\* Calls made one after the other with the shorter batches, over each of the
\* three backends: any number of calls over MemoryStorage and over the SQL
\* backend, MaxFileCalls calls over FileStorage, whose scheduleSave goroutines
\* run between and during the calls.
SpecSeq == InitSeq /\ [][NextSeq]_vars

\* Calls made by several request threads at once, MaxCalls of them in all.
SpecConc == InitConc /\ [][Next]_vars

\* ------------------------------------- the delete pipeline (older service)
\* service.DeleteURLs of the older service file: a dispatching goroutine
\* starts one goroutine per id, at most PoolSize of them at a time, collects
\* their results and closes done; the caller waits for done or for its
\* context.

\* workers := make(chan struct{}, 4)
PoolSize == 4

\* The records in the backend when the pipeline's call is made.
StoredRecords ==
    [id \in Strs(IdLen) |->
        IF id = "a" THEN UserURL(id, "u", "A", FALSE)
                    ELSE UserURL(id, "v", "B", FALSE)]

\* ctx.Err() of a cancelled context
Canceled == "context canceled"

\* The positions of the id list.
Positions == 1..Len(del.shortIDs)

\* The id lists handed to the pipeline: one of every length up to
\* MaxPipeIDs, in which both ids occur and one occurs again.
PipeLists ==
    {[i \in 1..n |-> IF i % 3 = 2 THEN "b" ELSE "a"] : n \in 0..MaxPipeIDs}

\* The goroutines whose backend call returned an error.
Failed == {i \in DOMAIN worker : worker[i].err # ""}

\* The goroutines whose backend call has begun and has not returned.
InProgress == {i \in DOMAIN worker : worker[i].pc = "deleting"}

\* DeleteURLs is called: the channels are made, the dispatching goroutine is
\* started and the caller stands at its select.
InitPipeline ==
    /\ impl \in SyncImpls
    /\ genLength = IdLen
    /\ urls = StoredRecords
    /\ cache = <<>>
    /\ pc = [t \in Threads |-> "idle"]
    /\ loc = [t \in Threads |-> NoCall]
    /\ ret = [t \in Threads |-> NoCall]
    /\ prev = [t \in Threads |-> NoCall]
    /\ clients = {}
    /\ calls = 0
    /\ \E ids \in PipeLists, w \in Users :
            del = [shortIDs |-> ids, userID |-> w]
    /\ workers = 0
    /\ results = <<>>
    /\ done = FALSE
    /\ dispatcher = [pc |-> "dispatch", i |-> 1, n |-> 0]
    /\ worker = [i \in Positions |-> [pc |-> "none", err |-> "", calls |-> 0]]
    /\ ctxDone = FALSE
    /\ caller = [pc |-> "select", err |-> ""]
    /\ logged = 0
    /\ NoSelection
    /\ NoGenerator
    /\ NoPair
    /\ NoRequests
    /\ NoLocks

\* A dispatcher that starts a goroutine per id without taking a token.
Dispatcher_SendUnbounded ==
    /\ dispatcher.pc = "dispatch"
    /\ dispatcher.i \in Positions
    /\ worker' = [worker EXCEPT ![dispatcher.i].pc = "deleting",
                                ![dispatcher.i].calls = @ + 1]
    /\ dispatcher' = [dispatcher EXCEPT !.i = dispatcher.i + 1]
    /\ UNCHANGED <<del, workers, results, done, ctxDone, caller, logged>>
    /\ UNCHANGED <<svcVars, selVars, lockVars, genVars, eqVars, httpVars>>

\* A dispatcher that stops starting goroutines once the context is cancelled.
Dispatcher_SendUntilCancelled ==
    /\ dispatcher.pc = "dispatch"
    /\ dispatcher.i \in Positions
    /\ workers < PoolSize
    /\ ~ctxDone
    /\ workers' = workers + 1
    /\ worker' = [worker EXCEPT ![dispatcher.i].pc = "deleting",
                                ![dispatcher.i].calls = @ + 1]
    /\ dispatcher' = [dispatcher EXCEPT !.i = dispatcher.i + 1]
    /\ UNCHANGED <<del, results, done, ctxDone, caller, logged>>
    /\ UNCHANGED <<svcVars, selVars, lockVars, genVars, eqVars, httpVars>>

\* workers <- struct{}{}; go func(id string) {...}(shortID): the goroutine
\* of the position is started, and with it its call of s.deleter.DeleteURLs.
Dispatcher_Send ==
    /\ dispatcher.pc = "dispatch"
    /\ dispatcher.i \in Positions
    /\ workers < PoolSize
    /\ workers' = workers + 1
    /\ worker' = [worker EXCEPT ![dispatcher.i].pc = "deleting",
                                ![dispatcher.i].calls = @ + 1]
    /\ dispatcher' = [dispatcher EXCEPT !.i = dispatcher.i + 1]
    /\ UNCHANGED <<del, results, done, ctxDone, caller, logged>>
    /\ UNCHANGED <<svcVars, selVars, lockVars, genVars, eqVars, httpVars>>

\* The first loop is over: for range shortIDs { err := <-results ... }
Dispatcher_Collect ==
    /\ dispatcher.pc = "dispatch"
    /\ dispatcher.i \notin Positions
    /\ dispatcher' = [dispatcher EXCEPT !.pc = "collect"]
    /\ UNCHANGED <<del, workers, results, done, worker, ctxDone, caller, logged>>
    /\ UNCHANGED <<svcVars, selVars, lockVars, genVars, eqVars, httpVars>>

\* if err := <-results; err != nil { logrus...Error(...) }
Dispatcher_Receive ==
    /\ dispatcher.pc = "collect"
    /\ dispatcher.n < Len(del.shortIDs)
    /\ results # <<>>
    /\ results' = Tail(results)
    /\ logged' = IF Head(results) # "" THEN logged + 1 ELSE logged
    /\ dispatcher' = [dispatcher EXCEPT !.n = dispatcher.n + 1]
    /\ UNCHANGED <<del, workers, done, worker, ctxDone, caller>>
    /\ UNCHANGED <<svcVars, selVars, lockVars, genVars, eqVars, httpVars>>

\* A dispatcher that ends without closing done.
Dispatcher_CloseForgotten ==
    /\ dispatcher.pc = "collect"
    /\ dispatcher.n = Len(del.shortIDs)
    /\ dispatcher' = [dispatcher EXCEPT !.pc = "exit"]
    /\ UNCHANGED <<del, workers, results, done, worker, ctxDone, caller, logged>>
    /\ UNCHANGED <<svcVars, selVars, lockVars, genVars, eqVars, httpVars>>

\* defer close(done)
Dispatcher_Close ==
    /\ dispatcher.pc = "collect"
    /\ dispatcher.n = Len(del.shortIDs)
    /\ done' = TRUE
    /\ dispatcher' = [dispatcher EXCEPT !.pc = "exit"]
    /\ UNCHANGED <<del, workers, results, worker, ctxDone, caller, logged>>
    /\ UNCHANGED <<svcVars, selVars, lockVars, genVars, eqVars, httpVars>>

\* err := s.deleter.DeleteURLs(context.Background(), []string{id}, userID)
\* returns, having marked the record or failed.
Worker_Delete(i) ==
    /\ worker[i].pc = "deleting"
    /\ \E d \in BackendDeleteURLs(impl, urls, <<del.shortIDs[i]>>, del.userID) :
        /\ d.err # "" => Cardinality(Failed) < MaxPipeFailures
        /\ urls' = d.urls
        /\ worker' = [worker EXCEPT ![i].pc = "returned", ![i].err = d.err]
    /\ UNCHANGED <<del, workers, results, done, dispatcher, ctxDone, caller, logged>>
    /\ UNCHANGED <<impl, genLength, cache, pc, loc, ret, prev, clients, calls>>
    /\ UNCHANGED selVars
    /\ UNCHANGED <<genVars, eqVars, httpVars>>
    /\ MarkDirty
    /\ UNCHANGED <<cacheMu, mu, flushLock, dataFile, tmpFile, written>>

\* results <- err, on a channel with room for len(shortIDs) errors
Worker_Result(i) ==
    /\ worker[i].pc = "returned"
    /\ Len(results) < Len(del.shortIDs)
    /\ results' = Append(results, worker[i].err)
    /\ worker' = [worker EXCEPT ![i].pc = "sent"]
    /\ UNCHANGED <<del, workers, done, dispatcher, ctxDone, caller, logged>>
    /\ UNCHANGED <<svcVars, selVars, lockVars, genVars, eqVars, httpVars>>

\* A goroutine that ends without giving its token back.
Worker_ReleaseForgotten(i) ==
    /\ worker[i].pc = "sent"
    /\ worker' = [worker EXCEPT ![i].pc = "exit"]
    /\ UNCHANGED <<del, workers, results, done, dispatcher, ctxDone, caller, logged>>
    /\ UNCHANGED <<svcVars, selVars, lockVars, genVars, eqVars, httpVars>>

\* defer func() { <-workers }()
Worker_Release(i) ==
    /\ worker[i].pc = "sent"
    /\ workers > 0
    /\ workers' = workers - 1
    /\ worker' = [worker EXCEPT ![i].pc = "exit"]
    /\ UNCHANGED <<del, results, done, dispatcher, ctxDone, caller, logged>>
    /\ UNCHANGED <<svcVars, selVars, lockVars, genVars, eqVars, httpVars>>

\* The caller's context is cancelled.
Ctx_Cancel ==
    /\ ~ctxDone
    /\ ctxDone' = TRUE
    /\ UNCHANGED <<del, workers, results, done, dispatcher, worker, caller, logged>>
    /\ UNCHANGED <<svcVars, selVars, lockVars, genVars, eqVars, httpVars>>

\* select { case <-done: return nil }
Caller_Done ==
    /\ caller.pc = "select"
    /\ done
    /\ caller' = [pc |-> "returned", err |-> ""]
    /\ UNCHANGED <<del, workers, results, done, dispatcher, worker, ctxDone, logged>>
    /\ UNCHANGED <<svcVars, selVars, lockVars, genVars, eqVars, httpVars>>

\* select { case <-ctx.Done(): return ctx.Err() }
Caller_CtxDone ==
    /\ caller.pc = "select"
    /\ ctxDone
    /\ caller' = [pc |-> "returned", err |-> Canceled]
    /\ UNCHANGED <<del, workers, results, done, dispatcher, worker, ctxDone, logged>>
    /\ UNCHANGED <<svcVars, selVars, lockVars, genVars, eqVars, httpVars>>

\* One step of one goroutine of the pipeline, or of the caller's context.
NextPipeline ==
    \/ Dispatcher_Send
    \/ Dispatcher_Collect
    \/ Dispatcher_Receive
    \/ Dispatcher_Close
    \/ \E i \in 1..MaxPipeIDs : i \in Positions /\ Worker_Delete(i)
    \/ \E i \in 1..MaxPipeIDs : i \in Positions /\ Worker_Result(i)
    \/ \E i \in 1..MaxPipeIDs : i \in Positions /\ Worker_Release(i)
    \/ Ctx_Cancel
    \/ Caller_Done
    \/ Caller_CtxDone

\* One DeleteURLs call of the older service, under any scheduling.
SpecPipeline == InitPipeline /\ [][NextPipeline]_vars

\* A step of the dispatching goroutine.
Dispatcher ==
    \/ Dispatcher_Send
    \/ Dispatcher_Collect
    \/ Dispatcher_Receive
    \/ Dispatcher_Close

\* A step of the goroutine of position i.
Worker(i) ==
    /\ i \in Positions
    /\ \/ Worker_Delete(i)
       \/ Worker_Result(i)
       \/ Worker_Release(i)

\* A step of the caller at its select.
Caller == Caller_Done \/ Caller_CtxDone

\* The same call when the Go scheduler lets every goroutine that can take a
\* step take one in the end, and every backend call returns.  Nothing makes
\* the context be cancelled.
SpecPipelineFair ==
    /\ SpecPipeline
    /\ WF_vars(Dispatcher)
    /\ \A i \in 1..MaxPipeIDs : WF_vars(Worker(i))
    /\ WF_vars(Caller)

\* ------------------------------------------------------- storage selection
\* NewStorage(databaseDSN, fileStoragePath) of storage.go, with the two
\* constructors it tries.

\* The connection strings and the file paths NewStorage is given.
DSNs == {"", "postgres://db"}

Paths == {"", "urls.json"}

\* What the database does with the connection string: the string does not
\* parse, the server cannot be reached or refuses the table, or all is well.
DbStates == {"bad dsn", "down", "up"}

\* What is at the file path: nothing, a file that cannot be opened, a file
\* that is not a JSON array (an empty file is one), a file saveToFile wrote.
FileStates == {"absent", "unreadable", "not json", "valid"}

\* database.NewPostgresStorage: the error, "" for nil.
NewPostgresStorage(db) ==
    IF db = "bad dsn" THEN "failed to connect to database: " \o DbError
    ELSE IF db = "down" THEN "failed to create urls table: " \o DbError
    ELSE ""

\* file.NewFileStorage: the error, "" for nil.
NewFileStorage(file) ==
    IF file = "absent" THEN ""
    ELSE IF file = "unreadable" THEN "permission denied"
    ELSE IF file = "not json" THEN "EOF"
    ELSE ""

\* NewStorage is called: impl is the nil interface.
InitSelection ==
    /\ impl = "nil"
    /\ genLength = IdLen
    /\ urls = NewMemoryStorage
    /\ cache = <<>>
    /\ pc = [t \in Threads |-> "idle"]
    /\ loc = [t \in Threads |-> NoCall]
    /\ ret = [t \in Threads |-> NoCall]
    /\ prev = [t \in Threads |-> NoCall]
    /\ clients = {}
    /\ calls = 0
    /\ NoPipeline
    /\ NoLocks
    /\ NoGenerator
    /\ NoPair
    /\ NoRequests
    /\ env \in [databaseDSN : DSNs, fileStoragePath : Paths,
                 db : DbStates, file : FileStates]
    /\ newStorage = [pc |-> "postgres", err |-> ""]

\* A NewStorage that takes the file whenever a path is given.
NewStorage_FileAlways ==
    /\ newStorage.pc = "file"
    /\ impl' = IF env.fileStoragePath # "" /\ NewFileStorage(env.file) = ""
               THEN "file" ELSE impl
    /\ newStorage' = [newStorage EXCEPT !.pc = "memory"]
    /\ UNCHANGED <<genLength, urls, cache, pc, loc, ret, prev, clients, calls>>
    /\ UNCHANGED <<pipeVars, lockVars, genVars, eqVars, httpVars, env>>

\* NewStorage, lines 33-41: if databaseDSN != "" { ... }
NewStorage_Postgres ==
    /\ newStorage.pc = "postgres"
    /\ impl' = IF env.databaseDSN # "" /\ NewPostgresStorage(env.db) = ""
               THEN "sql" ELSE impl
    /\ newStorage' = [newStorage EXCEPT !.pc = "file"]
    /\ UNCHANGED <<genLength, urls, cache, pc, loc, ret, prev, clients, calls>>
    /\ UNCHANGED <<pipeVars, lockVars, genVars, eqVars, httpVars, env>>

\* NewStorage, lines 43-51: if impl == nil && fileStoragePath != "" { ... }
NewStorage_File ==
    /\ newStorage.pc = "file"
    /\ impl' = IF impl = "nil" /\ env.fileStoragePath # ""
                    /\ NewFileStorage(env.file) = ""
               THEN "file" ELSE impl
    /\ newStorage' = [newStorage EXCEPT !.pc = "memory"]
    /\ UNCHANGED <<genLength, urls, cache, pc, loc, ret, prev, clients, calls>>
    /\ UNCHANGED <<pipeVars, lockVars, genVars, eqVars, httpVars, env>>

\* NewStorage, lines 53-58: if impl == nil { ... }; return &Storage{impl}, nil
NewStorage_Memory ==
    /\ newStorage.pc = "memory"
    /\ impl' = IF impl = "nil" THEN "memory" ELSE impl
    /\ newStorage' = [pc |-> "returned", err |-> ""]
    /\ UNCHANGED <<genLength, urls, cache, pc, loc, ret, prev, clients, calls>>
    /\ UNCHANGED <<pipeVars, lockVars, genVars, eqVars, httpVars, env>>

\* Pinger.Ping of the backend that was chosen, through Storage.AsPinger.
NewStorage_Ping ==
    /\ newStorage.pc = "returned"
    /\ \E e \in BackendPing(impl) : newStorage' = [pc |-> "pinged", err |-> e]
    /\ UNCHANGED <<svcVars, pipeVars, lockVars, genVars, eqVars, httpVars, env>>

NextSelection ==
    \/ NewStorage_Postgres
    \/ NewStorage_File
    \/ NewStorage_Memory
    \/ NewStorage_Ping

\* One call of NewStorage, in every environment, and a Ping of its result.
SpecSelection == InitSelection /\ [][NextSelection]_vars

\* ------------------------------- the Service over memory or file, lock by lock
\*
\* The same Service, over the memory or the file backend, with every
\* Lock/RLock and Unlock/RUnlock of Service.cacheMu, of the backend's mu and of
\* FileStorage.flushLock a step of its own, and the goroutines that
\* FileStorage starts with "go fs.scheduleSave()".  A step named after a lock
\* call acquires the lock; a step named after an unlock call runs the section
\* the lock protects and releases it.

\* The backends that keep their records in a map under mu.
MapImpls == {"memory", "file"}

\* NewService over NewMemoryStorage, or over NewFileStorage of a path where
\* no file is.
InitLocks ==
    /\ clients = Threads
    /\ impl \in MapImpls
    /\ genLength = IdLen
    /\ urls = NewMemoryStorage
    /\ cache = <<>>
    /\ pc = [t \in Threads |-> "idle"]
    /\ loc = [t \in Threads |-> NoCall]
    /\ ret = [t \in Threads |-> NoCall]
    /\ prev = [t \in Threads |-> NoCall]
    /\ calls = 0
    /\ NoPipeline
    /\ NoSelection
    /\ NoGenerator
    /\ NoPair
    /\ NoRequests
    /\ cacheMu = RWFree
    /\ mu = RWFree
    /\ flushLock = "none"
    /\ isDirty = FALSE
    /\ dataFile = NoFile
    /\ tmpFile = NoFile
    /\ flusher = [f \in Range(Flushers) |-> NoFlusher]
    /\ written = [t \in Threads |-> {}]

\* Thread t can begin a call.
CanCall(t) == pc[t] = "idle" /\ calls < MaxLockCalls

\* Thread t moves on to step l of its method with locals r.
Step(t, l, r) ==
    /\ pc' = [pc EXCEPT ![t] = l]
    /\ loc' = [loc EXCEPT ![t] = r]
    /\ ret' = IF pc[t] = "idle" THEN [ret EXCEPT ![t] = NoCall] ELSE ret
    /\ calls' = IF pc[t] = "idle" THEN calls + 1 ELSE calls
    /\ UNCHANGED <<impl, genLength, prev, clients>>
    /\ UNCHANGED pipeVars
    /\ UNCHANGED selVars
    /\ UNCHANGED <<genVars, eqVars, httpVars>>

\* The method of thread t returns; r records the call and its results.
Done(t, r) ==
    /\ pc' = [pc EXCEPT ![t] = "idle"]
    /\ loc' = [loc EXCEPT ![t] = NoCall]
    /\ ret' = [ret EXCEPT ![t] =
                [r EXCEPT !.batch = <<>>, !.correlationMap = <<>>,
                          !.shortID = IF r.op = "Get" THEN r.shortID ELSE ""]]
    /\ UNCHANGED <<impl, genLength, prev, clients, calls>>
    /\ UNCHANGED pipeVars
    /\ UNCHANGED selVars
    /\ UNCHANGED <<genVars, eqVars, httpVars>>

\* The end of a mutating backend method: mu.Unlock(), and in FileStorage
\* fs.isDirty = true before it and go fs.scheduleSave() after it.
Mutated(t) ==
    /\ mu' = Unlock(mu)
    /\ MarkDirty

\* ShortenURL, line 68, FindByOriginalURL: mu.RLock()
ShortenURL_muRLock(t, originalURL, userID) ==
    /\ CanCall(t)
    /\ CanRLock(mu)
    /\ mu' = RLock(mu, t)
    /\ Step(t, "ShortenURL_muRUnlock",
            [NoCall EXCEPT !.op = "ShortenURL", !.userID = userID,
                           !.originalURL = originalURL])
    /\ UNCHANGED <<urls, cache, cacheMu, flushLock, isDirty, dataFile, tmpFile,
                   flusher, written>>

\* ShortenURL, lines 68-82: the lookup, the deferred mu.RUnlock(), and either
\* the existing id returned or a new one generated.
ShortenURL_muRUnlock(t) ==
    /\ pc[t] = "ShortenURL_muRUnlock"
    /\ mu' = RUnlock(mu, t)
    /\ \E f \in BackendFindByOriginalURL(impl, urls, loc[t].originalURL) :
        IF f.err # ""
        THEN Done(t, [loc[t] EXCEPT !.err = "error finding URL: " \o f.err])
        ELSE IF f.id # ""
        THEN Done(t, [loc[t] EXCEPT !.ShortURL = ShortURLOf(f.id),
                                    !.IsNew = FALSE])
        ELSE \E shortID \in Generate(genLength) :
                IF shortID = ""
                THEN Done(t, [loc[t] EXCEPT !.err = "failed to generate short ID"])
                ELSE Step(t, "ShortenURL_cacheMuLock",
                          [loc[t] EXCEPT !.shortID = shortID])
    /\ UNCHANGED <<urls, cache, cacheMu, flushLock, isDirty, dataFile, tmpFile,
                   flusher, written>>

\* ShortenURL, line 84: s.cacheMu.Lock()
ShortenURL_cacheMuLock(t) ==
    /\ pc[t] = "ShortenURL_cacheMuLock"
    /\ CanLock(cacheMu)
    /\ cacheMu' = Lock(cacheMu, t)
    /\ Step(t, "ShortenURL_cacheMuUnlock", loc[t])
    /\ UNCHANGED <<urls, cache, mu, flushLock, isDirty, dataFile, tmpFile,
                   flusher, written>>

\* ShortenURL, lines 85-86: delete(s.cache, userID); s.cacheMu.Unlock()
ShortenURL_cacheMuUnlock(t) ==
    /\ pc[t] = "ShortenURL_cacheMuUnlock"
    /\ cache' = CacheDelete(cache, loc[t].userID)
    /\ cacheMu' = Unlock(cacheMu)
    /\ Step(t, "ShortenURL_muLock", loc[t])
    /\ UNCHANGED <<urls, mu, flushLock, isDirty, dataFile, tmpFile, flusher,
                   written>>

\* ShortenURL, line 88, Save: mu.Lock()
ShortenURL_muLock(t) ==
    /\ pc[t] = "ShortenURL_muLock"
    /\ CanLock(mu)
    /\ mu' = Lock(mu, t)
    /\ Step(t, "ShortenURL_muUnlock", loc[t])
    /\ UNCHANGED <<urls, cache, cacheMu, flushLock, isDirty, dataFile, tmpFile,
                   flusher, written>>

\* ShortenURL, lines 88-95: the record stored, mu.Unlock(), and the result.
ShortenURL_muUnlock(t) ==
    /\ pc[t] = "ShortenURL_muUnlock"
    /\ \E s \in BackendSave(impl, urls, loc[t].shortID, loc[t].originalURL,
                            loc[t].userID) :
        /\ urls' = s.urls
        /\ IF s.err # ""
           THEN Done(t, [loc[t] EXCEPT !.err = "error saving URL: " \o s.err])
           ELSE Done(t, [loc[t] EXCEPT !.ShortURL = ShortURLOf(loc[t].shortID),
                                       !.IsNew = TRUE])
    /\ Mutated(t)
    /\ UNCHANGED <<cache, cacheMu, flushLock, dataFile, tmpFile, written>>

\* ShortenBatch, lines 110-120: one id per item, then s.cacheMu.Lock()
ShortenBatch_cacheMuLock(t, items, userID) ==
    /\ CanCall(t)
    /\ CanLock(cacheMu)
    /\ cacheMu' = Lock(cacheMu, t)
    /\ \E ids \in [1..Len(items) -> Generate(genLength)] :
        Step(t, "ShortenBatch_cacheMuUnlock",
             [NoCall EXCEPT !.op = "ShortenBatch", !.userID = userID,
                            !.items = items,
                            !.batch = BatchMap(items, ids),
                            !.correlationMap = CorrelationMap(items, ids)])
    /\ UNCHANGED <<urls, cache, mu, flushLock, isDirty, dataFile, tmpFile,
                   flusher, written>>

\* ShortenBatch, lines 121-122: delete(s.cache, userID); s.cacheMu.Unlock()
ShortenBatch_cacheMuUnlock(t) ==
    /\ pc[t] = "ShortenBatch_cacheMuUnlock"
    /\ cache' = CacheDelete(cache, loc[t].userID)
    /\ cacheMu' = Unlock(cacheMu)
    /\ Step(t, "SaveBatch_muLock", loc[t])
    /\ UNCHANGED <<urls, mu, flushLock, isDirty, dataFile, tmpFile, flusher,
                   written>>

\* SaveBatch: mu.Lock()
SaveBatch_muLock(t) ==
    /\ pc[t] = "SaveBatch_muLock"
    /\ CanLock(mu)
    /\ mu' = Lock(mu, t)
    /\ Step(t, "SaveBatch_Store", loc[t])
    /\ UNCHANGED <<urls, cache, cacheMu, flushLock, isDirty, dataFile, tmpFile,
                   flusher, written>>

\* urls[shortID] = models.UserURL{...}: the body of SaveBatch's loop
StoreItem(m, shortID, originalURL, userID) ==
    [x \in DOMAIN m \cup {shortID} |->
        IF x = shortID THEN UserURL(shortID, originalURL, userID, FALSE) ELSE m[x]]

\* A SaveBatch that takes the lock for each item on its own.
SaveBatch_StoreUnlocked(t) ==
    /\ pc[t] = "SaveBatch_Store"
    /\ \E shortID \in DOMAIN loc[t].batch \ written[t] :
        /\ urls' = StoreItem(urls, shortID, loc[t].batch[shortID], loc[t].userID)
        /\ written' = [written EXCEPT ![t] = @ \cup {shortID}]
    /\ mu' = Unlock(mu)
    /\ Step(t, "SaveBatch_muLock", loc[t])
    /\ UNCHANGED <<cache, cacheMu, flushLock, isDirty, dataFile, tmpFile, flusher>>

\* SaveBatch: one turn of the loop over items (a map, so in any order)
SaveBatch_Store(t) ==
    /\ pc[t] = "SaveBatch_Store"
    /\ \E shortID \in DOMAIN loc[t].batch \ written[t] :
        /\ urls' = StoreItem(urls, shortID, loc[t].batch[shortID], loc[t].userID)
        /\ written' = [written EXCEPT ![t] = @ \cup {shortID}]
    /\ Step(t, "SaveBatch_Store", loc[t])
    /\ UNCHANGED <<cache, cacheMu, mu, flushLock, isDirty, dataFile, tmpFile,
                   flusher>>

\* SaveBatch after the loop: mu.Unlock(); ShortenBatch, lines 124-137: the
\* responses built.
SaveBatch_muUnlock(t) ==
    /\ pc[t] = "SaveBatch_Store"
    /\ written[t] = DOMAIN loc[t].batch
    /\ written' = [written EXCEPT ![t] = {}]
    /\ Mutated(t)
    /\ Done(t, [loc[t] EXCEPT
                    !.resp = BatchResponse(loc[t].items, loc[t].correlationMap)])
    /\ UNCHANGED <<urls, cache, cacheMu, flushLock, dataFile, tmpFile>>

\* GetURLsByUserID, line 164: s.cacheMu.RLock()
GetURLsByUserID_cacheMuRLock(t, userID) ==
    /\ CanCall(t)
    /\ CanRLock(cacheMu)
    /\ cacheMu' = RLock(cacheMu, t)
    /\ Step(t, "GetURLsByUserID_cacheMuRUnlock",
            [NoCall EXCEPT !.op = "GetURLsByUserID", !.userID = userID])
    /\ UNCHANGED <<urls, cache, mu, flushLock, isDirty, dataFile, tmpFile,
                   flusher, written>>

\* A GetURLsByUserID that keeps the cache's read lock through the fetch when
\* the probe misses.
GetURLsByUserID_cacheMuRLockKept(t) ==
    /\ pc[t] = "GetURLsByUserID_cacheMuRUnlock"
    /\ IF loc[t].userID \in DOMAIN cache
       THEN /\ cacheMu' = RUnlock(cacheMu, t)
            /\ Done(t, [loc[t] EXCEPT !.list = cache[loc[t].userID],
                                      !.hadCache = TRUE])
       ELSE /\ UNCHANGED cacheMu
            /\ Step(t, "GetURLsByUserID_muRLock", loc[t])
    /\ UNCHANGED <<urls, cache, mu, flushLock, isDirty, dataFile, tmpFile,
                   flusher, written>>

\* GetURLsByUserID, lines 165-169: the probe, s.cacheMu.RUnlock(), and the
\* cached list returned if there is one.
GetURLsByUserID_cacheMuRUnlock(t) ==
    /\ pc[t] = "GetURLsByUserID_cacheMuRUnlock"
    /\ cacheMu' = RUnlock(cacheMu, t)
    /\ IF loc[t].userID \in DOMAIN cache
       THEN Done(t, [loc[t] EXCEPT !.list = cache[loc[t].userID],
                                   !.hadCache = TRUE])
       ELSE Step(t, "GetURLsByUserID_muRLock", loc[t])
    /\ UNCHANGED <<urls, cache, mu, flushLock, isDirty, dataFile, tmpFile,
                   flusher, written>>

\* GetURLsByUserID, line 171, the backend's GetURLsByUserID: mu.RLock()
GetURLsByUserID_muRLock(t) ==
    /\ pc[t] = "GetURLsByUserID_muRLock"
    /\ CanRLock(mu)
    /\ mu' = RLock(mu, t)
    /\ Step(t, "GetURLsByUserID_muRUnlock", loc[t])
    /\ UNCHANGED <<urls, cache, cacheMu, flushLock, isDirty, dataFile, tmpFile,
                   flusher, written>>

\* GetURLsByUserID, lines 171-178: the user's records read, the deferred
\* mu.RUnlock(), and the short URLs rewritten.
GetURLsByUserID_muRUnlock(t) ==
    /\ pc[t] = "GetURLsByUserID_muRUnlock"
    /\ mu' = RUnlock(mu, t)
    /\ \E f \in BackendGetURLsByUserID(impl, urls, loc[t].userID) :
        IF f.err # ""
        THEN Done(t, [loc[t] EXCEPT !.err = "error getting user URLs: " \o f.err])
        ELSE Step(t, "GetURLsByUserID_cacheMuLock",
                  [loc[t] EXCEPT !.list = RewriteShortURLs(f.list)])
    /\ UNCHANGED <<urls, cache, cacheMu, flushLock, isDirty, dataFile, tmpFile,
                   flusher, written>>

\* GetURLsByUserID, line 180: s.cacheMu.Lock()
GetURLsByUserID_cacheMuLock(t) ==
    /\ pc[t] = "GetURLsByUserID_cacheMuLock"
    /\ CanLock(cacheMu)
    /\ cacheMu' = Lock(cacheMu, t)
    /\ Step(t, "GetURLsByUserID_cacheMuUnlock", loc[t])
    /\ UNCHANGED <<urls, cache, mu, flushLock, isDirty, dataFile, tmpFile,
                   flusher, written>>

\* GetURLsByUserID, lines 181-184: s.cache[userID] = urls; s.cacheMu.Unlock()
GetURLsByUserID_cacheMuUnlock(t) ==
    /\ pc[t] = "GetURLsByUserID_cacheMuUnlock"
    /\ cache' = CachePut(cache, loc[t].userID, loc[t].list)
    /\ cacheMu' = Unlock(cacheMu)
    /\ Done(t, loc[t])
    /\ UNCHANGED <<urls, mu, flushLock, isDirty, dataFile, tmpFile, flusher,
                   written>>

\* DeleteURLs, line 198: s.cacheMu.Lock()
DeleteURLs_cacheMuLock(t, shortIDs, userID) ==
    /\ CanCall(t)
    /\ CanLock(cacheMu)
    /\ cacheMu' = Lock(cacheMu, t)
    /\ Step(t, "DeleteURLs_cacheMuUnlock",
            [NoCall EXCEPT !.op = "DeleteURLs", !.userID = userID,
                           !.shortIDs = shortIDs])
    /\ UNCHANGED <<urls, cache, mu, flushLock, isDirty, dataFile, tmpFile,
                   flusher, written>>

\* DeleteURLs, lines 199-200: delete(s.cache, userID); s.cacheMu.Unlock()
DeleteURLs_cacheMuUnlock(t) ==
    /\ pc[t] = "DeleteURLs_cacheMuUnlock"
    /\ cache' = CacheDelete(cache, loc[t].userID)
    /\ cacheMu' = Unlock(cacheMu)
    /\ Step(t, "DeleteURLs_muLock", loc[t])
    /\ UNCHANGED <<urls, mu, flushLock, isDirty, dataFile, tmpFile, flusher,
                   written>>

\* DeleteURLs, line 202, the backend's DeleteURLs: mu.Lock()
DeleteURLs_muLock(t) ==
    /\ pc[t] = "DeleteURLs_muLock"
    /\ CanLock(mu)
    /\ mu' = Lock(mu, t)
    /\ Step(t, "DeleteURLs_muUnlock", loc[t])
    /\ UNCHANGED <<urls, cache, cacheMu, flushLock, isDirty, dataFile, tmpFile,
                   flusher, written>>

\* DeleteURLs, line 202: the records marked, mu.Unlock(), and the backend's
\* error returned.
DeleteURLs_muUnlock(t) ==
    /\ pc[t] = "DeleteURLs_muUnlock"
    /\ \E d \in BackendDeleteURLs(impl, urls, loc[t].shortIDs, loc[t].userID) :
        /\ urls' = d.urls
        /\ Done(t, [loc[t] EXCEPT !.err = d.err])
    /\ Mutated(t)
    /\ UNCHANGED <<cache, cacheMu, flushLock, dataFile, tmpFile, written>>

\* Service.Get, the backend's Get: mu.RLock()
Get_muRLock(t, shortID) ==
    /\ CanCall(t)
    /\ CanRLock(mu)
    /\ mu' = RLock(mu, t)
    /\ Step(t, "Get_muRUnlock", [NoCall EXCEPT !.op = "Get", !.shortID = shortID])
    /\ UNCHANGED <<urls, cache, cacheMu, flushLock, isDirty, dataFile, tmpFile,
                   flusher, written>>

\* Service.Get: the record read and the deferred mu.RUnlock()
Get_muRUnlock(t) ==
    /\ pc[t] = "Get_muRUnlock"
    /\ mu' = RUnlock(mu, t)
    /\ \E g \in BackendGet(impl, urls, loc[t].shortID) :
        Done(t, [loc[t] EXCEPT !.url = g.url, !.found = g.found])
    /\ UNCHANGED <<urls, cache, cacheMu, flushLock, isDirty, dataFile, tmpFile,
                   flusher, written>>

\* The batches and id lists the callers of this specification pass: the
\* batches of up to MaxBatch items with one correlation id and one URL each.
LockBatches ==
    {b \in Batches(MaxBatch) :
        \A i \in 1..Len(b) :
            /\ b[i].CorrelationID = (IF i = 1 THEN "c1" ELSE "c2")
            /\ b[i].OriginalURL = (IF i = 1 THEN "u" ELSE "v")}

LockIdLists == IdLists(IdLen, MaxConcDel)

\* One step of a request thread.
Request(t) ==
    \/ \E u \in URLs, w \in Users : ShortenURL_muRLock(t, u, w)
    \/ ShortenURL_muRUnlock(t)
    \/ ShortenURL_cacheMuLock(t)
    \/ ShortenURL_cacheMuUnlock(t)
    \/ ShortenURL_muLock(t)
    \/ ShortenURL_muUnlock(t)
    \/ \E items \in LockBatches, w \in Users : ShortenBatch_cacheMuLock(t, items, w)
    \/ ShortenBatch_cacheMuUnlock(t)
    \/ SaveBatch_muLock(t)
    \/ SaveBatch_Store(t)
    \/ SaveBatch_muUnlock(t)
    \/ \E w \in Users : GetURLsByUserID_cacheMuRLock(t, w)
    \/ GetURLsByUserID_cacheMuRUnlock(t)
    \/ GetURLsByUserID_muRLock(t)
    \/ GetURLsByUserID_muRUnlock(t)
    \/ GetURLsByUserID_cacheMuLock(t)
    \/ GetURLsByUserID_cacheMuUnlock(t)
    \/ \E ids \in LockIdLists, w \in Users : DeleteURLs_cacheMuLock(t, ids, w)
    \/ DeleteURLs_cacheMuUnlock(t)
    \/ DeleteURLs_muLock(t)
    \/ DeleteURLs_muUnlock(t)
    \/ \E id \in Generate(IdLen) : Get_muRLock(t, id)
    \/ Get_muRUnlock(t)

NextLocks ==
    \/ \E t \in Threads : Request(t)
    \/ \E f \in Range(Flushers) : Flush(f)

\* Request threads calling the Service at once, over the memory or the file
\* backend, with the file backend's flushes.
SpecLocks == InitLocks /\ [][NextLocks]_vars

\* A step of thread t inside a call it has begun.
Running(t) == pc[t] # "idle" /\ Request(t)

\* The same, with every goroutine scheduled again and again: a request
\* thread inside a call, or a scheduleSave goroutine, that can take a step
\* does not wait for ever.  Nothing makes a client begin a call.
SpecLocksFair ==
    /\ SpecLocks
    /\ \A t \in Threads : WF_vars(Running(t))
    /\ \A f \in Range(Flushers) : WF_vars(Flush(f))

\* ------------------------- DatabaseStorage.SaveBatch, statement by statement
\*
\* SaveBatch of the SQL backend with Begin, every Exec and Commit a step of
\* its own; urls holds the committed rows, written the keys of the pairs the
\* open transaction of a thread has inserted.  The other request thread can
\* look rows up meanwhile.

\* The rows the table can hold when a run starts.
TxStores == {NewMemoryStorage, StoredRecords}

\* The batches SaveBatch is handed: maps from shortID to originalURL.
TxBatches == UNION {[S -> URLs] : S \in SUBSET Generate(IdLen)}

\* A connection to a table, and request threads with no call yet.
InitTx ==
    /\ clients = Threads
    /\ impl = "sql"
    /\ genLength = IdLen
    /\ urls \in TxStores
    /\ cache = <<>>
    /\ pc = [t \in Threads |-> "idle"]
    /\ loc = [t \in Threads |-> NoCall]
    /\ ret = [t \in Threads |-> NoCall]
    /\ prev = [t \in Threads |-> NoCall]
    /\ calls = 0
    /\ NoPipeline
    /\ NoSelection
    /\ NoGenerator
    /\ NoPair
    /\ NoRequests
    /\ cacheMu = RWFree
    /\ mu = RWFree
    /\ flushLock = "none"
    /\ isDirty = FALSE
    /\ dataFile = NoFile
    /\ tmpFile = NoFile
    /\ flusher = <<>>
    /\ written = [t \in Threads |-> {}]

\* SaveBatch returns err; the deferred tx.Rollback drops what the
\* transaction inserted (after a Commit it does nothing).
TxReturn(t, err) ==
    /\ pc' = [pc EXCEPT ![t] = "idle"]
    /\ loc' = [loc EXCEPT ![t] = NoCall]
    /\ ret' = [ret EXCEPT ![t] = [loc[t] EXCEPT !.err = err]]
    /\ written' = [written EXCEPT ![t] = {}]
    /\ UNCHANGED <<impl, genLength, cache, prev, clients, calls>>
    /\ UNCHANGED <<pipeVars, selVars, genVars, eqVars, httpVars>>
    /\ UNCHANGED <<cacheMu, mu, flushLock, isDirty, dataFile, tmpFile, flusher>>

\* SaveBatch, lines 149-153: db.pool.Begin
SaveBatch_Begin(t, batch, userID) ==
    /\ CanCall(t)
    /\ \E ok \in BOOLEAN :
        Step(t, IF ok THEN "SaveBatch_Exec" ELSE "SaveBatch_BeginFailed",
             [NoCall EXCEPT !.op = "SaveBatch", !.userID = userID,
                            !.batch = batch])
    /\ UNCHANGED <<urls, cache>>
    /\ UNCHANGED lockVars

\* SaveBatch, lines 150-152: the error of Begin returned
SaveBatch_BeginFailed(t) ==
    /\ pc[t] = "SaveBatch_BeginFailed"
    /\ TxReturn(t, "failed to begin transaction: " \o DbError)
    /\ UNCHANGED urls

\* A SaveBatch whose inserts are committed one by one.
SaveBatch_ExecAutocommit(t) ==
    /\ pc[t] = "SaveBatch_Exec"
    /\ \E shortID \in DOMAIN loc[t].batch \ written[t] :
        \/ /\ written' = [written EXCEPT ![t] = @ \cup {shortID}]
           /\ urls' = DbInsertURL(urls, shortID, loc[t].batch[shortID],
                                  loc[t].userID)
           /\ UNCHANGED <<impl, genLength, cache, pc, loc, ret, prev, clients,
                          calls, pipeVars, selVars, genVars, eqVars, httpVars>>
           /\ UNCHANGED <<cacheMu, mu, flushLock, isDirty, dataFile, tmpFile,
                          flusher>>
        \/ /\ TxReturn(t, "failed to save batch URL: " \o DbError)
           /\ UNCHANGED urls

\* SaveBatch, lines 156-161: tx.Exec of InsertURLBatch for one pair of the
\* batch (a map, so in any order); its error ends the call.
SaveBatch_Exec(t) ==
    /\ pc[t] = "SaveBatch_Exec"
    /\ \E shortID \in DOMAIN loc[t].batch \ written[t] :
        \/ /\ written' = [written EXCEPT ![t] = @ \cup {shortID}]
           /\ UNCHANGED <<svcVars, pipeVars, selVars, genVars, eqVars, httpVars>>
           /\ UNCHANGED <<cacheMu, mu, flushLock, isDirty, dataFile, tmpFile,
                          flusher>>
        \/ /\ TxReturn(t, "failed to save batch URL: " \o DbError)
           /\ UNCHANGED urls

\* The rows a transaction that inserted the pairs of keys leaves when it
\* commits: ON CONFLICT (short_id) DO NOTHING keeps a row that is there.
TxCommit(m, batch, keys, userID) ==
    [x \in DOMAIN m \cup keys |->
        IF x \in DOMAIN m THEN m[x] ELSE UserURL(x, batch[x], userID, FALSE)]

\* SaveBatch, lines 163-166: tx.Commit
SaveBatch_Commit(t) ==
    /\ pc[t] = "SaveBatch_Exec"
    /\ written[t] = DOMAIN loc[t].batch
    /\ \/ /\ urls' = TxCommit(urls, loc[t].batch, written[t], loc[t].userID)
          /\ TxReturn(t, "")
       \/ /\ TxReturn(t, "failed to commit transaction: " \o DbError)
          /\ UNCHANGED urls

\* DatabaseStorage.Get by the other thread: SelectByShortID sees committed
\* rows only.
Get_SelectByShortID(t, shortID) ==
    /\ pc[t] = "idle"
    /\ \E g \in BackendGet(impl, urls, shortID) :
        /\ pc' = pc
        /\ loc' = loc
        /\ ret' = [ret EXCEPT ![t] = [NoCall EXCEPT !.op = "Get",
                        !.shortID = shortID, !.url = g.url, !.found = g.found]]
    /\ UNCHANGED <<impl, genLength, urls, cache, prev, clients, calls>>
    /\ UNCHANGED <<pipeVars, selVars, lockVars, genVars, eqVars, httpVars>>

NextTx ==
    \/ \E t \in Threads, batch \in TxBatches, w \in Users : SaveBatch_Begin(t, batch, w)
    \/ \E t \in Threads : SaveBatch_BeginFailed(t)
    \/ \E t \in Threads : SaveBatch_Exec(t)
    \/ \E t \in Threads : SaveBatch_Commit(t)
    \/ \E t \in Threads, id \in Generate(IdLen) : Get_SelectByShortID(t, id)

\* SaveBatch calls on the SQL backend, with lookups between their statements.
SpecTx == InitTx /\ [][NextTx]_vars

\* ------------------------------------------- NewFileStorage over the file
\*
\* A FileStorage with records and a scheduleSave goroutine about to run, and
\* after the goroutine ended a new process that calls NewFileStorage on the
\* same path.  A URL posted as text/plain reaches Save as the bytes of the
\* request body, so it can hold bytes that are not valid UTF-8.

\* The URLs of the records: those of the other runs and one with a byte that
\* is not valid UTF-8.
RawURLs == URLs \cup {"w~"}

\* The maps a FileStorage can hold under the given ids: every key is its
\* record's ShortURL.
LoadMaps(ids) ==
    UNION {{[id \in S |-> UserURL(id, r[id].OriginalURL, r[id].UserID,
                                  r[id].IsDeleted)] :
                r \in [S -> [OriginalURL : RawURLs, UserID : Users,
                             IsDeleted : BOOLEAN]]} :
           S \in SUBSET ids}

\* The file at the path before the storage's first flush: none, or one that
\* is not JSON.
LoadFiles == {NoFile, [exists |-> TRUE, json |-> FALSE, entries |-> {}]}

\* decoder.Decode into models.UserURL: a field that is not in the object
\* keeps its zero value.
DecodeEntry(o) ==
    UserURL(o.short_url, o.original_url, o.user_id,
            IF "is_deleted" \in DOMAIN o THEN o.is_deleted ELSE FALSE)

\* decoder.Decode(&entries)
Decode(entries) == {DecodeEntry(o) : o \in entries}

\* for _, entry := range entries { fs.urls[entry.ShortURL] = entry }: the
\* maps the loop can leave (of entries with one ShortURL the last one stays).
LoadEntries(entries) ==
    {m \in [{e.ShortURL : e \in entries} -> entries] :
        \A k \in DOMAIN m : m[k].ShortURL = k}

InitLoad ==
    /\ clients = {}
    /\ impl = "file"
    /\ genLength = IdLen
    /\ urls \in LoadMaps(Generate(IdLen))
    /\ cache = <<>>
    /\ pc = [t \in Threads |-> "idle"]
    /\ loc = [t \in Threads |-> NoCall]
    /\ ret = [t \in Threads |-> NoCall]
    /\ prev = [t \in Threads |-> NoCall]
    /\ calls = 0
    /\ NoPipeline
    /\ env = [databaseDSN |-> "", fileStoragePath |-> "", db |-> "", file |-> ""]
    /\ newStorage = [pc |-> "none", err |-> ""]
    /\ NoGenerator
    /\ NoPair
    /\ NoRequests
    /\ cacheMu = RWFree
    /\ mu = RWFree
    /\ flushLock = "none"
    /\ isDirty \in BOOLEAN
    /\ dataFile \in LoadFiles
    /\ tmpFile = NoFile
    /\ flusher = [f \in Range(Flushers) |->
                    IF f = Flushers[1]
                    THEN [NoFlusher EXCEPT !.pc = "scheduleSave_flushLock"]
                    ELSE NoFlusher]
    /\ written = [t \in Threads |-> {}]

\* The outcome of NewFileStorage: the storage's map, and the error.
Constructed(m, err) ==
    /\ urls' = m
    /\ newStorage' = [pc |-> "file", err |-> err]
    /\ impl' = IF err = "" THEN "file" ELSE "nil"

\* file.NewFileStorage(filePath), lines 36-63, in a process started after
\* the goroutines of the old one ended.
NewFileStorage_Load ==
    /\ newStorage.pc = "none"
    /\ \A f \in Range(Flushers) : flusher[f].pc = "none"
    /\ IF ~dataFile.exists
       THEN Constructed(<<>>, "")
       ELSE \/ Constructed(<<>>, "permission denied")
            \/ IF ~dataFile.json
               THEN Constructed(<<>>, "invalid character")
               ELSE \E m \in LoadEntries(Decode(dataFile.entries)) :
                        Constructed(m, "")
    /\ isDirty' = FALSE
    /\ UNCHANGED <<genLength, cache, pc, loc, ret, prev, clients, calls>>
    /\ UNCHANGED <<pipeVars, genVars, eqVars, httpVars, env>>
    /\ UNCHANGED <<cacheMu, mu, flushLock, dataFile, tmpFile, flusher, written>>

NextLoad ==
    \/ \E f \in Range(Flushers) : Flush(f)
    \/ NewFileStorage_Load

\* One flush of a FileStorage, then NewFileStorage on what the flush left.
SpecLoad == InitLoad /\ [][NextLoad]_vars

\* ------------------------------------ SimpleGenerator.Generate, byte by byte
\*
\* One generator shared by the request threads, with the mutex and the
\* buffer: taking the mutex, every turn of the loop that fills the buffer,
\* and the return are steps of their own.

\* A byte of the buffer that make([]byte, length) zeroed.
Nul == "."

\* A caller that has not called Generate: n counts its calls, picked holds
\* the letters rnd gave to its last call, id what that call returned.
NoGenerate == [pc |-> "idle", i |-> 0, n |-> 0, picked |-> "", id |-> ""]

RECURSIVE String(_)
\* string(g.buffer)
String(b) == IF Len(b) = 0 THEN "" ELSE Head(b) \o String(Tail(b))

\* NewGenerator(length), for every length up to MaxGenLength.
InitGenerator ==
    /\ clients = Threads
    /\ impl = "memory"
    /\ genLength \in 0..MaxGenLength
    /\ urls = NewMemoryStorage
    /\ cache = <<>>
    /\ pc = [t \in Threads |-> "idle"]
    /\ loc = [t \in Threads |-> NoCall]
    /\ ret = [t \in Threads |-> NoCall]
    /\ prev = [t \in Threads |-> NoCall]
    /\ calls = 0
    /\ NoPipeline
    /\ NoSelection
    /\ NoLocks
    /\ genMu = "none"
    /\ buffer = [i \in 1..genLength |-> Nul]
    /\ gen = [t \in Threads |-> NoGenerate]
    /\ NoPair
    /\ NoRequests

\* A Generate that neither waits for the mutex nor takes it.
Generate_muLockSkipped(t) ==
    /\ gen[t].pc = "idle"
    /\ gen[t].n < MaxGenCalls
    /\ UNCHANGED genMu
    /\ gen' = [gen EXCEPT ![t] = [pc |-> "Generate_Fill", i |-> 1, n |-> @.n + 1,
                                  picked |-> "", id |-> ""]]
    /\ UNCHANGED <<svcVars, pipeVars, selVars, lockVars, httpVars, eqVars, buffer>>

\* Generate, line 52: g.mu.Lock()
Generate_muLock(t) ==
    /\ gen[t].pc = "idle"
    /\ gen[t].n < MaxGenCalls
    /\ genMu = "none"
    /\ genMu' = t
    /\ gen' = [gen EXCEPT ![t] = [pc |-> "Generate_Fill", i |-> 1, n |-> @.n + 1,
                                  picked |-> "", id |-> ""]]
    /\ UNCHANGED <<svcVars, pipeVars, selVars, lockVars, httpVars, eqVars, buffer>>

\* Generate, lines 55-57: g.buffer[i] = g.letters[g.rnd.Intn(len(g.letters))]
Generate_Fill(t) ==
    /\ gen[t].pc = "Generate_Fill"
    /\ gen[t].i <= Len(buffer)
    /\ \E c \in Letters :
        /\ buffer' = [buffer EXCEPT ![gen[t].i] = c]
        /\ gen' = [gen EXCEPT ![t].i = @ + 1, ![t].picked = @ \o c]
    /\ UNCHANGED <<svcVars, pipeVars, selVars, lockVars, httpVars, eqVars, genMu>>

\* Generate, lines 58 and 53: return string(g.buffer), then the deferred
\* g.mu.Unlock()
Generate_Return(t) ==
    /\ gen[t].pc = "Generate_Fill"
    /\ gen[t].i > Len(buffer)
    /\ gen' = [gen EXCEPT ![t].pc = "idle", ![t].i = 0, ![t].id = String(buffer)]
    /\ genMu' = "none"
    /\ UNCHANGED <<svcVars, pipeVars, selVars, lockVars, httpVars, eqVars, buffer>>

NextGenerator ==
    \/ \E t \in Threads : Generate_muLock(t)
    \/ \E t \in Threads : Generate_Fill(t)
    \/ \E t \in Threads : Generate_Return(t)

\* Request threads calling Generate on one generator at once.
SpecGenerator == InitGenerator /\ [][NextGenerator]_vars

\* ------------------------------------------------------------ HTTP handlers
\* internal/app/handler/handlers.go, the URLHandler app.go builds (lines
\* 211-557), and internal/app/auth/auth.go.  One request thread runs one
\* handler at a time; the handler's call of the Service is the Service's own
\* steps.

\* auth.SignData: the HMAC-SHA256 of the data under SecretKey, in hex.
SignData(data) == "hmac(" \o data \o ")"

\* auth.VerifySignature
VerifySignature(data, signature) == signature = SignData(data)

\* The user_id_id and user_id_sign cookies of a request: both absent, or an
\* id with a signature (of that id, or of another one).
Cookies ==
    {[present |-> FALSE, id |-> "", sign |-> ""]}
        \cup {[present |-> TRUE, id |-> u, sign |-> SignData(w)] :
                u \in Users, w \in Users}

\* auth.GetUserIDFromCookie
GetUserIDFromCookie(c) ==
    IF ~c.present THEN [userID |-> "", err |-> "invalid cookie format"]
    ELSE IF ~VerifySignature(c.id, c.sign)
         THEN [userID |-> "", err |-> "invalid signature"]
         ELSE [userID |-> c.id, err |-> ""]

\* auth.GenerateUserID: the UUIDs uuid.New can give.
UUIDs == {"N1", "N2"}

\* ------------------------------------------------- the strings of a request
\* A string that comes from a request (a body, the url of a JSON object) is
\* the sequence of its bytes, each a number of 0..255, as a string of Go is:
\* it can hold every byte, 0x00 included, and runes above U+00FF in their
\* UTF-8 encoding.  The handlers trim and parse these bytes.  The texts of
\* the program itself (messages, header values, ids) are written as strings,
\* and so is a URL that a handler hands to the Service: Text writes every
\* byte sequence as a string of its own.

\* strings.Contains
Contains(s, substr) ==
    \E i \in 1..(Len(s) - Len(substr) + 1) :
        SubSeq(s, i, i + Len(substr) - 1) = substr

\* strings.HasPrefix
HasPrefix(s, prefix) ==
    Len(prefix) <= Len(s) /\ SubSeq(s, 1, Len(prefix)) = prefix

\* strings.HasSuffix
HasSuffix(s, suffix) ==
    /\ Len(suffix) <= Len(s)
    /\ SubSeq(s, Len(s) - Len(suffix) + 1, Len(s)) = suffix

\* The positions at which substr starts in s.
Occurrences(s, substr) ==
    {i \in 1..(Len(s) - Len(substr) + 1) :
        SubSeq(s, i, i + Len(substr) - 1) = substr}

\* strings.Index, counted from 1: 0 when substr is not in s.
Index(s, substr) ==
    IF Occurrences(s, substr) = {} THEN 0
    ELSE CHOOSE i \in Occurrences(s, substr) :
            \A j \in Occurrences(s, substr) : i <= j

\* strings.LastIndex, counted from 1: 0 when substr is not in s.
LastIndex(s, substr) ==
    IF Occurrences(s, substr) = {} THEN 0
    ELSE CHOOSE i \in Occurrences(s, substr) :
            \A j \in Occurrences(s, substr) : j <= i

\* The characters of string s.
Chars(s) == {SubSeq(s, i, i) : i \in 1..Len(s)}

\* The characters of the bytes 0x20 to 0x7e in their order, 0x60 left out (a
\* string of a module cannot hold it).
Printable ==
    " !\"#$%&'()*+,-./0123456789:;<=>?@ABCDEFGHIJKLMNOPQRSTUVWXYZ[\\]^_abcdefghijklmnopqrstuvwxyz{|}~"

\* The byte of a character that a string of a module holds.
ByteOf(c) ==
    CASE c = "\t" -> \h09
      [] c = "\n" -> \h0A
      [] c = "\f" -> \h0C
      [] c = "\r" -> \h0D
      [] OTHER -> LET i == Index(Printable, c)
                  IN  IF i <= 64 THEN i + 31 ELSE i + 32

\* []byte(s): the bytes of a text that is written as a string without \x.
Bytes(s) == [i \in 1..Len(s) |-> ByteOf(SubSeq(s, i, i))]

\* The way a byte is written in a string: a printable ASCII byte as its
\* character, and every other byte, as well as the backslash and 0x60, as
\* \x with its two hexadecimal digits (as a Go literal writes it).
CharOf(b) ==
    IF b \in (\h20..\h7E) \ {\h5C, \h60}
    THEN LET i == IF b < \h60 THEN b - 31 ELSE b - 32
         IN  SubSeq(Printable, i, i)
    ELSE "\\x" \o SubSeq("0123456789abcdef", (b \div 16) + 1, (b \div 16) + 1)
                \o SubSeq("0123456789abcdef", (b % 16) + 1, (b % 16) + 1)

RECURSIVE Text(_)
\* string(b): the string of bytes b, written byte by byte as CharOf writes
\* them, so that two strings are written alike only if they are the same
\* bytes.
Text(b) ==
    IF Len(b) = 0 THEN "" ELSE CharOf(b[1]) \o Text(Tail(b))

\* utf8.EncodeRune: the bytes of rune r in UTF-8.
EncodeRune(r) ==
    IF r < \h80 THEN <<r>>
    ELSE IF r < \h800
    THEN <<\hC0 + (r \div \h40), \h80 + (r % \h40)>>
    ELSE IF r < \h10000
    THEN <<\hE0 + (r \div \h1000), \h80 + ((r \div \h40) % \h40),
           \h80 + (r % \h40)>>
    ELSE <<\hF0 + (r \div \h40000), \h80 + ((r \div \h1000) % \h40),
           \h80 + ((r \div \h40) % \h40), \h80 + (r % \h40)>>

\* unicode.White_Space, the runes unicode.IsSpace holds for: \t, \n, \v, \f,
\* \r, space, U+0085, U+00A0, U+1680, U+2000 to U+200A, U+2028, U+2029,
\* U+202F, U+205F, U+3000.
White_Space ==
    (\h09..\h0D) \cup {\h20, \h85, \hA0, \h1680} \cup (\h2000..\h200A)
        \cup {\h2028, \h2029, \h202F, \h205F, \h3000}

\* The white space of Unicode as strings.TrimSpace meets it in a string:
\* each rune of unicode.White_Space in its UTF-8 encoding.
WhiteSpace == {EncodeRune(r) : r \in White_Space}

RECURSIVE TrimSpace(_)
\* strings.TrimSpace: all leading and trailing white space removed.  A rune
\* is decoded at the start of the string and one at its end; the encoding of
\* a white space rune there is that rune, and a byte that starts no valid
\* encoding is utf8.RuneError, which is no white space.
TrimSpace(s) ==
    IF \E w \in WhiteSpace : HasPrefix(s, w)
    THEN LET w == CHOOSE w \in WhiteSpace : HasPrefix(s, w)
         IN  TrimSpace(SubSeq(s, Len(w) + 1, Len(s)))
    ELSE IF \E w \in WhiteSpace : HasSuffix(s, w)
    THEN LET w == CHOOSE w \in WhiteSpace : HasSuffix(s, w)
         IN  TrimSpace(SubSeq(s, 1, Len(s) - Len(w)))
    ELSE s

\* 'a' <= c && c <= 'z' || 'A' <= c && c <= 'Z'
Alpha == (\h61..\h7A) \cup (\h41..\h5A)

\* '0' <= c && c <= '9'
Digit == \h30..\h39

\* net/url stringContainsCTLByte: a byte below 0x20, or 0x7f.
stringContainsCTLByte(s) ==
    \E i \in 1..Len(s) : s[i] < \h20 \/ s[i] = \h7F

\* net/url ishex
ishex(c) == c \in Digit \cup (\h61..\h66) \cup (\h41..\h46)

\* net/url unhex
unhex(c) ==
    IF c \in Digit THEN c - \h30
    ELSE IF c \in \h61..\h66 THEN c - \h61 + 10
    ELSE c - \h41 + 10

\* The bytes net/url shouldEscape lets a host hold beside letters and
\* digits: the sub-delimiters, ":", "[", "]", "<", ">", the double quote and
\* the marks "-", "_", ".", "~".
HostBytes == Range(Bytes("!$&'()*+,;=:[]<>\"-_.~"))

\* net/url shouldEscape(c, encodeHost): every byte but the letters, the
\* digits and those a host may hold.
shouldEscape(c) ==
    c \notin Alpha \cup Digit \cup HostBytes

\* net/url unescape: whether it returns no error.  Every "%" has two
\* hexadecimal digits after it; in a host an escape is for a byte of 0x80
\* and above ("%25" apart) and no byte below 0x80 is one a host must
\* escape; in a zone an escape is "%25", a space or a byte a host may hold.
unescape(s, mode) ==
    \A i \in 1..Len(s) :
        IF s[i] = \h25
        THEN /\ i + 2 <= Len(s)
             /\ ishex(s[i + 1])
             /\ ishex(s[i + 2])
             /\ mode = "encodeHost"
                    => \/ unhex(s[i + 1]) >= 8
                       \/ SubSeq(s, i, i + 2) = Bytes("%25")
             /\ mode = "encodeZone"
                    => LET v == unhex(s[i + 1]) * 16 + unhex(s[i + 2])
                       IN  \/ SubSeq(s, i, i + 2) = Bytes("%25")
                           \/ v = \h20
                           \/ ~shouldEscape(v)
        ELSE mode \in {"encodeHost", "encodeZone"}
                => ~(s[i] < \h80 /\ shouldEscape(s[i]))

\* net/url getScheme: the scheme (empty when the text has none), the rest
\* and whether there is no error ("missing protocol scheme" for a text that
\* starts with a colon).  The scan stops at the first byte that is no letter
\* and, past the first byte, no digit, "+", "-" or "."; a colon there ends
\* the scheme, any other byte means there is none.
getScheme(rawURL) ==
    LET stops == {i \in 1..Len(rawURL) :
                        /\ rawURL[i] \notin Alpha
                        /\ i = 1 \/ rawURL[i] \notin Digit \cup Range(Bytes("+-."))}
        i == IF stops = {} THEN 0
             ELSE CHOOSE k \in stops : \A j \in stops : k <= j
    IN  IF i = 0 \/ <<rawURL[i]>> # Bytes(":")
        THEN [scheme |-> <<>>, rest |-> rawURL, ok |-> TRUE]
        ELSE IF i = 1 THEN [scheme |-> <<>>, rest |-> <<>>, ok |-> FALSE]
        ELSE [scheme |-> SubSeq(rawURL, 1, i - 1),
              rest |-> SubSeq(rawURL, i + 1, Len(rawURL)), ok |-> TRUE]

\* net/url validOptionalPort: empty, or a colon and digits.
validOptionalPort(port) ==
    \/ Len(port) = 0
    \/ /\ HasPrefix(port, Bytes(":"))
       /\ \A i \in 2..Len(port) : port[i] \in Digit

\* net/url validUserinfo
validUserinfo(s) ==
    Range(s) \subseteq Alpha \cup Digit \cup Range(Bytes("-._:~!$&'()*+,;=%@"))

\* net/url parseHost: whether it returns no error.
parseHost(host) ==
    IF HasPrefix(host, Bytes("["))
    THEN LET i == LastIndex(host, Bytes("]"))
             zone == Index(SubSeq(host, 1, i - 1), Bytes("%25"))
         IN  /\ i # 0
             /\ validOptionalPort(SubSeq(host, i + 1, Len(host)))
             /\ IF zone # 0
                THEN /\ unescape(SubSeq(host, 1, zone - 1), "encodeHost")
                     /\ unescape(SubSeq(host, zone, i - 1), "encodeZone")
                     /\ unescape(SubSeq(host, i, Len(host)), "encodeHost")
                ELSE unescape(host, "encodeHost")
    ELSE /\ LastIndex(host, Bytes(":")) # 0
            => validOptionalPort(SubSeq(host, LastIndex(host, Bytes(":")),
                                        Len(host)))
         /\ unescape(host, "encodeHost")

\* net/url parseAuthority: whether it returns no error.
parseAuthority(authority) ==
    LET i == LastIndex(authority, Bytes("@"))
        userinfo == SubSeq(authority, 1, i - 1)
    IN  /\ parseHost(SubSeq(authority, i + 1, Len(authority)))
        /\ i # 0 => /\ validUserinfo(userinfo)
                    /\ unescape(userinfo, "encodeUserPassword")

\* net/url parse: whether it returns no error.
parse(rawURL, viaRequest) ==
    LET s == getScheme(rawURL)
        q == Index(s.rest, Bytes("?"))
        rest == IF q = 0 THEN s.rest ELSE SubSeq(s.rest, 1, q - 1)
        slash == Index(SubSeq(rest, 3, Len(rest)), Bytes("/"))
        authority == IF slash = 0 THEN SubSeq(rest, 3, Len(rest))
                     ELSE SubSeq(rest, 3, slash + 1)
        path == IF slash = 0 THEN <<>> ELSE SubSeq(rest, slash + 2, Len(rest))
        segment == IF Index(rest, Bytes("/")) = 0 THEN rest
                   ELSE SubSeq(rest, 1, Index(rest, Bytes("/")) - 1)
    IN  /\ ~stringContainsCTLByte(rawURL)
        /\ ~(Len(rawURL) = 0 /\ viaRequest)
        /\ \/ rawURL = Bytes("*")
           \/ /\ s.ok
              /\ IF ~HasPrefix(rest, Bytes("/"))
                 THEN \/ Len(s.scheme) # 0
                      \/ /\ ~viaRequest
                         /\ ~Contains(segment, Bytes(":"))
                         /\ unescape(rest, "encodePath")
                 ELSE IF /\ Len(s.scheme) # 0
                            \/ (~viaRequest /\ ~HasPrefix(rest, Bytes("///")))
                         /\ HasPrefix(rest, Bytes("//"))
                 THEN /\ parseAuthority(authority)
                      /\ unescape(path, "encodePath")
                 ELSE unescape(rest, "encodePath")

\* url.ParseRequestURI: whether it accepts the text.
ParseRequestURI(s) == parse(s, TRUE)

\* url.Parse: whether it accepts the text, the part before the first "#"
\* as a URL and the part after it as a fragment.
Parse(s) ==
    LET i == Index(s, Bytes("#"))
    IN  IF i = 0 THEN parse(s, FALSE)
        ELSE /\ parse(SubSeq(s, 1, i - 1), FALSE)
             /\ unescape(SubSeq(s, i + 1, Len(s)), "encodeFragment")

\* The Content-Type headers of the shorten requests.
ContentTypes == {"", "text/plain; charset=utf-8", "application/json"}

\* The bodies of the shorten requests: white space only; a URL with white
\* space around it (U+3000, \t and U+00A0 before it, \v, U+2028, space and
\* \n after it); a URL; a text url.ParseRequestURI rejects for being
\* neither absolute nor a path; a URL with the byte 0x00 in it.
Bodies ==
    {Bytes(" \r\n"),
     EncodeRune(\h3000) \o Bytes("\t") \o EncodeRune(\hA0) \o Bytes("/u")
        \o <<\h0B>> \o EncodeRune(\h2028) \o Bytes(" \n"),
     Bytes("/v"),
     Bytes("bad"),
     Bytes("/a") \o <<\h00>> \o Bytes("b")}

\* The url of a models.ShortenRequest and the original_url of a
\* models.BatchShortenRequest, as json.Decode reads them: absent or empty, a
\* URL, a word url.Parse takes for a relative reference, a text with a
\* broken escape, a URL with the byte 0x00 in it (written \u0000 in the
\* JSON text).
JSONURLs ==
    {<<>>, Bytes("/u"), Bytes("bad"), Bytes("%"),
     Bytes("/a") \o <<\h00>> \o Bytes("b")}

\* The bodies of the requests of HandleShortenURLJSON: no body at all, a text
\* that is no JSON object, or the object.
ShortenBodies ==
    {[nil |-> TRUE, err |-> FALSE, URL |-> <<>>],
     [nil |-> FALSE, err |-> TRUE, URL |-> <<>>]}
        \cup {[nil |-> FALSE, err |-> FALSE, URL |-> u] : u \in JSONURLs}

\* The bodies of the requests of HandleBatchShortenURL: no body at all, a
\* text that is no JSON array, or the array, its items named c1, c2 in turn.
BatchBodies ==
    {[nil |-> TRUE, err |-> FALSE, req |-> <<>>],
     [nil |-> FALSE, err |-> TRUE, req |-> <<>>]}
        \cup {[nil |-> FALSE, err |-> FALSE,
                req |-> [i \in 1..Len(us) |->
                            [CorrelationID |-> IF i = 1 THEN "c1" ELSE "c2",
                             OriginalURL |-> us[i]]]] :
                us \in UNION {[1..n -> JSONURLs] : n \in 0..MaxSeqBatch}}

\* The bodies of the delete requests as json.Decode reads them into a
\* []string: a text that is no JSON array of strings, or the array.
DeleteBodies ==
    {[err |-> TRUE, shortIDs |-> <<>>]}
        \cup {[err |-> FALSE, shortIDs |-> ids] : ids \in IdLists(IdLen, MaxDel)}

\* A request thread that runs no handler and has answered nothing.
NoRequest ==
    [pc |-> "idle", handler |-> "", userID |-> "", arg |-> "",
     status |-> 0, body |-> "", json |-> <<>>, location |-> "",
     setCookie |-> ""]

\* The Service behind the handlers, with one request thread.
InitHandlers ==
    /\ clients = SeqThreads
    /\ impl \in SyncImpls
    /\ genLength \in GenLengths
    /\ urls = NewMemoryStorage
    /\ cache = <<>>
    /\ pc = [t \in Threads |-> "idle"]
    /\ loc = [t \in Threads |-> NoCall]
    /\ ret = [t \in Threads |-> NoCall]
    /\ prev = [t \in Threads |-> NoCall]
    /\ calls = 0
    /\ NoPipeline
    /\ NoSelection
    /\ NoLocks
    /\ NoGenerator
    /\ NoPair
    /\ http = [t \in Threads |-> NoRequest]

\* A request arrives at thread t, which runs handler h for it.
Serving(t, h) ==
    [NoRequest EXCEPT !.handler = h]

\* http.Error(w, msg, code), and the handler returns.
Error(r, msg, code) ==
    [r EXCEPT !.pc = "idle", !.status = code, !.body = msg \o "\n"]

\* w.WriteHeader(code); json.NewEncoder(w).Encode(v), and the handler
\* returns: json holds the value written.
EncodeJSON(r, v, code) ==
    [r EXCEPT !.pc = "idle", !.status = code, !.json = v]

\* The request's user: the one of its cookie, or a new one (with the cookie
\* set for it) when the request has no valid cookie.
WithUser(r, cookie, uuid) ==
    LET c == GetUserIDFromCookie(cookie)
    IN  [r EXCEPT !.userID = IF c.err # "" THEN uuid ELSE c.userID,
                  !.setCookie = IF c.err # "" THEN uuid ELSE ""]

\* auth.GenerateUserID for the request: called only when the cookie is not
\* valid.
NewUserIDs(cookie) ==
    IF GetUserIDFromCookie(cookie).err # "" THEN UUIDs ELSE {""}

\* A request arrives (MaxRequests of them in a run): the handler has
\* answered nothing and has not called the Service; the thread holds no
\* result of a call.
Handle(t, r) ==
    /\ t \in clients
    /\ http[t].pc = "idle"
    /\ pc[t] = "idle"
    /\ calls < MaxRequests
    /\ calls' = calls + 1
    /\ http' = [http EXCEPT ![t] = r]
    /\ ret' = [ret EXCEPT ![t] = NoCall]
    /\ UNCHANGED <<impl, genLength, urls, cache, pc, loc, prev, clients>>
    /\ UNCHANGED <<pipeVars, selVars, lockVars, genVars, eqVars>>

\* The Service has returned to the handler of thread t, which answers r.
Respond(t, h, op, r) ==
    /\ http[t].pc = h
    /\ pc[t] = "idle"
    /\ ret[t].op = op
    /\ http' = [http EXCEPT ![t] = [r EXCEPT !.pc = "idle"]]
    /\ UNCHANGED <<svcVars, pipeVars, selVars, lockVars, genVars, eqVars>>

\* ShortenHandler.HandleShortenURL, lines 287-320: the user of the request
\* (a new one with its cookie when the request has no valid cookie), the
\* Content-Type, the body, the URL in it.
HandleShortenURL(t, cookie, contentType, readErr, body) ==
    LET originalURL == TrimSpace(body)
    IN  \E uuid \in NewUserIDs(cookie) :
            LET r == WithUser(Serving(t, "HandleShortenURL"), cookie, uuid)
            IN  Handle(t,
                    IF contentType # "" /\ ~Contains(contentType, "text/plain")
                    THEN Error(r, "Content-Type must be text/plain", 400)
                    ELSE IF readErr
                    THEN Error(r, "Failed to read request body", 400)
                    ELSE IF Len(originalURL) = 0
                    THEN Error(r, "Empty URL", 400)
                    ELSE IF ~ParseRequestURI(originalURL)
                    THEN Error(r, "Invalid URL format", 400)
                    ELSE [r EXCEPT !.pc = "HandleShortenURL",
                                   !.arg = Text(originalURL)])

\* HandleShortenURL, line 322: h.shortener.ShortenURL(ctx, originalURL, userID)
HandleShortenURL_ShortenURL(t) ==
    /\ http[t].pc = "HandleShortenURL"
    /\ ret[t].op = "none"
    /\ ShortenURL_Find(t, http[t].arg, http[t].userID)

\* A handler that answers 201 whatever the Service reports.
HandleShortenURL_RespondCreated(t) ==
    Respond(t, "HandleShortenURL", "ShortenURL",
        IF ret[t].err # ""
        THEN Error(http[t], Text(TrimSpace(Bytes(ret[t].err))), 500)
        ELSE [http[t] EXCEPT !.status = 201, !.body = ret[t].ShortURL])

\* HandleShortenURL, lines 323-334
HandleShortenURL_Respond(t) ==
    Respond(t, "HandleShortenURL", "ShortenURL",
        IF ret[t].err # ""
        THEN Error(http[t], Text(TrimSpace(Bytes(ret[t].err))), 500)
        ELSE [http[t] EXCEPT !.status = IF ret[t].IsNew THEN 201 ELSE 409,
                             !.body = ret[t].ShortURL])

\* ShortenHandler.HandleShortenURLJSON, lines 336-371: the user of the
\* request, the body, the url of the JSON object in it (taken as it is,
\* white space included, and checked with url.Parse).
HandleShortenURLJSON(t, cookie, body) ==
    \E uuid \in NewUserIDs(cookie) :
        LET r == WithUser(Serving(t, "HandleShortenURLJSON"), cookie, uuid)
        IN  Handle(t,
                IF body.nil
                THEN Error(r, "Empty request body", 400)
                ELSE IF body.err
                THEN EncodeJSON(r, [error |-> "Invalid JSON format"], 400)
                ELSE IF Len(body.URL) = 0
                THEN EncodeJSON(r, [error |-> "URL cannot be empty"], 400)
                ELSE IF ~Parse(body.URL)
                THEN EncodeJSON(r, [error |-> "Invalid URL format"], 400)
                ELSE [r EXCEPT !.pc = "HandleShortenURLJSON",
                               !.arg = Text(body.URL)])

\* HandleShortenURLJSON, line 373: h.shortener.ShortenURL(ctx, req.URL, userID)
HandleShortenURLJSON_ShortenURL(t) ==
    /\ http[t].pc = "HandleShortenURLJSON"
    /\ ret[t].op = "none"
    /\ ShortenURL_Find(t, http[t].arg, http[t].userID)

\* HandleShortenURLJSON, lines 374-387
HandleShortenURLJSON_Respond(t) ==
    Respond(t, "HandleShortenURLJSON", "ShortenURL",
        IF ret[t].err # ""
        THEN EncodeJSON(http[t], [error |-> "Failed to shorten URL"], 500)
        ELSE EncodeJSON(http[t], [result |-> ret[t].ShortURL],
                        IF ret[t].IsNew THEN 201 ELSE 409))

\* ShortenHandler.HandleBatchShortenURL, lines 389-429: the user of the
\* request, the body, the items of the JSON array in it, checked in turn.
HandleBatchShortenURL(t, cookie, body) ==
    \E uuid \in NewUserIDs(cookie) :
        LET r == WithUser(Serving(t, "HandleBatchShortenURL"), cookie, uuid)
            req == body.req
            bad == {i \in 1..Len(req) :
                        \/ Len(req[i].OriginalURL) = 0
                        \/ ~Parse(req[i].OriginalURL)}
            first == CHOOSE i \in bad : \A j \in bad : i <= j
        IN  Handle(t,
                IF body.nil
                THEN Error(r, "Empty request body", 400)
                ELSE IF body.err
                THEN EncodeJSON(r, [error |-> "Invalid JSON format"], 400)
                ELSE IF Len(req) = 0
                THEN EncodeJSON(r, [error |-> "Empty batch"], 400)
                ELSE IF bad # {} /\ Len(req[first].OriginalURL) = 0
                THEN EncodeJSON(r, [error |-> "URL cannot be empty"], 400)
                ELSE IF bad # {}
                THEN EncodeJSON(r, [error |-> "Invalid URL format"], 400)
                ELSE [r EXCEPT !.pc = "HandleBatchShortenURL",
                               !.arg = [i \in 1..Len(req) |->
                                    [req[i] EXCEPT
                                        !.OriginalURL = Text(req[i].OriginalURL)]]])

\* HandleBatchShortenURL, line 431: h.batch.ShortenBatch(ctx, req, userID)
HandleBatchShortenURL_ShortenBatch(t) ==
    /\ http[t].pc = "HandleBatchShortenURL"
    /\ ret[t].op = "none"
    /\ ShortenBatch_Generate(t, http[t].arg, http[t].userID)

\* HandleBatchShortenURL, lines 432-440
HandleBatchShortenURL_Respond(t) ==
    Respond(t, "HandleBatchShortenURL", "ShortenBatch",
        IF ret[t].err # ""
        THEN EncodeJSON(http[t], [error |-> "Failed to shorten batch"], 500)
        ELSE EncodeJSON(http[t], ret[t].resp, 201))

\* RedirectHandler.HandleRedirect, lines 443-449: the id of the route /{id}
HandleRedirect(t, id) ==
    Handle(t, [Serving(t, "HandleRedirect") EXCEPT !.pc = "HandleRedirect",
                                                    !.arg = id])

\* HandleRedirect, line 449: h.redirector.Get(ctx, id)
HandleRedirect_Get(t) ==
    /\ http[t].pc = "HandleRedirect"
    /\ ret[t].op = "none"
    /\ Get(t, http[t].arg)

\* HandleRedirect, lines 450-456
HandleRedirect_Respond(t) ==
    Respond(t, "HandleRedirect", "Get",
        IF ~ret[t].found
        THEN Error(http[t], "Gone", 410)
        ELSE [http[t] EXCEPT !.status = 307, !.location = ret[t].url])

\* UserURLsHandler.HandleGetUserURLs, lines 459-466: the user of the request
HandleGetUserURLs(t, cookie) ==
    \E uuid \in NewUserIDs(cookie) :
        Handle(t, [WithUser(Serving(t, "HandleGetUserURLs"), cookie, uuid)
                    EXCEPT !.pc = "HandleGetUserURLs"])

\* HandleGetUserURLs, line 468: h.fetcher.GetURLsByUserID(ctx, userID)
HandleGetUserURLs_GetURLsByUserID(t) ==
    /\ http[t].pc = "HandleGetUserURLs"
    /\ ret[t].op = "none"
    /\ GetURLsByUserID_Probe(t, http[t].userID)

\* HandleGetUserURLs, lines 469-481: 204 for an empty list, else the list
\* (the first Write of Encode sends the status 200).
HandleGetUserURLs_Respond(t) ==
    Respond(t, "HandleGetUserURLs", "GetURLsByUserID",
        IF ret[t].err # ""
        THEN Error(http[t], "Failed to get user URLs", 500)
        ELSE IF ret[t].list = {}
        THEN [http[t] EXCEPT !.status = 204]
        ELSE EncodeJSON(http[t], Encode(ret[t].list), 200))

\* DeleteHandler.HandleDeleteURLs, lines 484-502: the user of the cookie,
\* the id list of the body
HandleDeleteURLs(t, cookie, body) ==
    LET c == GetUserIDFromCookie(cookie)
        r == [Serving(t, "HandleDeleteURLs") EXCEPT !.userID = c.userID]
    IN  Handle(t,
            IF c.err # ""
            THEN Error(r, "Unauthorized", 401)
            ELSE IF body.err
            THEN Error(r, "Invalid JSON format", 400)
            ELSE IF Len(body.shortIDs) = 0
            THEN Error(r, "Empty list of URLs", 400)
            ELSE [r EXCEPT !.pc = "HandleDeleteURLs", !.arg = body.shortIDs])

\* HandleDeleteURLs, line 504: h.deleter.DeleteURLs(ctx, shortIDs, userID)
HandleDeleteURLs_DeleteURLs(t) ==
    /\ http[t].pc = "HandleDeleteURLs"
    /\ ret[t].op = "none"
    /\ DeleteURLs_Invalidate(t, http[t].arg, http[t].userID)

\* HandleDeleteURLs, lines 504-510
HandleDeleteURLs_Respond(t) ==
    Respond(t, "HandleDeleteURLs", "DeleteURLs",
        IF ret[t].err # ""
        THEN Error(http[t], "Failed to delete URLs", 500)
        ELSE [http[t] EXCEPT !.status = 202])

\* PingHandler.HandlePing, lines 513-516
HandlePing(t) ==
    Handle(t, [Serving(t, "HandlePing") EXCEPT !.pc = "HandlePing"])

\* HandlePing, line 516: h.pinger.Ping(ctx)
HandlePing_Ping(t) ==
    /\ http[t].pc = "HandlePing"
    /\ ret[t].op = "none"
    /\ Ping(t)

\* HandlePing, lines 517-528: w.Write sends the text as it is.
HandlePing_Respond(t) ==
    Respond(t, "HandlePing", "Ping",
        IF ret[t].err \in {FilePing, MemPing}
        THEN [http[t] EXCEPT
                !.status = 200,
                !.body = "Storage does not require database connection"]
        ELSE IF ret[t].err # ""
        THEN Error(http[t], "Database connection error", 500)
        ELSE [http[t] EXCEPT !.status = 200,
                             !.body = "Database connection is OK"])

\* One step of a handler, or of the Service method it called.
NextHandlers ==
    \/ \E t \in Threads, c \in Cookies, ct \in ContentTypes, e \in BOOLEAN,
          b \in Bodies : HandleShortenURL(t, c, ct, e, b)
    \/ \E t \in Threads : HandleShortenURL_ShortenURL(t)
    \/ \E t \in Threads : ShortenURL_Generate(t)
    \/ \E t \in Threads : ShortenURL_Save(t)
    \/ \E t \in Threads : HandleShortenURL_Respond(t)
    \/ \E t \in Threads, c \in Cookies, b \in ShortenBodies :
            HandleShortenURLJSON(t, c, b)
    \/ \E t \in Threads : HandleShortenURLJSON_ShortenURL(t)
    \/ \E t \in Threads : HandleShortenURLJSON_Respond(t)
    \/ \E t \in Threads, c \in Cookies, b \in BatchBodies :
            HandleBatchShortenURL(t, c, b)
    \/ \E t \in Threads : HandleBatchShortenURL_ShortenBatch(t)
    \/ \E t \in Threads : ShortenBatch_Save(t)
    \/ \E t \in Threads : HandleBatchShortenURL_Respond(t)
    \/ \E t \in Threads, c \in Cookies : HandleGetUserURLs(t, c)
    \/ \E t \in Threads : HandleGetUserURLs_GetURLsByUserID(t)
    \/ \E t \in Threads : GetURLsByUserID_Fetch(t)
    \/ \E t \in Threads : GetURLsByUserID_Store(t)
    \/ \E t \in Threads : HandleGetUserURLs_Respond(t)
    \/ \E t \in Threads : HandlePing(t)
    \/ \E t \in Threads : HandlePing_Ping(t)
    \/ \E t \in Threads : HandlePing_Respond(t)
    \/ \E t \in Threads, id \in Strs(IdLen) : HandleRedirect(t, id)
    \/ \E t \in Threads : HandleRedirect_Get(t)
    \/ \E t \in Threads : HandleRedirect_Respond(t)
    \/ \E t \in Threads, c \in Cookies, b \in DeleteBodies :
            HandleDeleteURLs(t, c, b)
    \/ \E t \in Threads : HandleDeleteURLs_DeleteURLs(t)
    \/ \E t \in Threads : DeleteURLs_Backend(t)
    \/ \E t \in Threads : HandleDeleteURLs_Respond(t)

\* Requests served one after the other, MaxRequests of them.
SpecHandlers == InitHandlers /\ [][NextHandlers]_vars

\* ------------------------------------------------- two backends side by side
\* A MemoryStorage and a FileStorage, both new, are handed the same calls one
\* after the other, MaxPairCalls of them.  pair holds the urls map of the
\* MemoryStorage and the last call with what each backend returned; the
\* FileStorage is urls, isDirty, its locks, its files and its scheduleSave
\* goroutines, which run between and during the calls.  A call is one step,
\* taken when fs.mu lets it in.  A list is held as the set of its elements
\* (GetURLsByUserID of MemoryStorage returns a nil slice when nothing
\* matches, that of FileStorage an empty one).

\* The items maps a caller can hand to SaveBatch: shortID -> originalURL.
ItemMaps == UNION {[S -> URLs] : S \in SUBSET Generate(IdLen)}

\* NewMemoryStorage and NewFileStorage over no data file; no call yet.
InitPair ==
    /\ clients = {}
    /\ impl = "file"
    /\ genLength = IdLen
    /\ urls = NewMemoryStorage
    /\ cache = <<>>
    /\ pc = [t \in Threads |-> "idle"]
    /\ loc = [t \in Threads |-> NoCall]
    /\ ret = [t \in Threads |-> NoCall]
    /\ prev = [t \in Threads |-> NoCall]
    /\ calls = 0
    /\ NoPipeline
    /\ NoSelection
    /\ NoGenerator
    /\ NoRequests
    /\ cacheMu = RWFree
    /\ mu = RWFree
    /\ flushLock = "none"
    /\ isDirty = FALSE
    /\ dataFile = NoFile
    /\ tmpFile = NoFile
    /\ flusher = [f \in Range(Flushers) |-> NoFlusher]
    /\ written = [t \in Threads |-> {}]
    /\ pair = [memory |-> NewMemoryStorage, op |-> "none", args |-> <<>>,
               memoryRet |-> <<>>, fileRet |-> <<>>]

\* A call that reads: it is made when fs.mu has no writer; m is the map it
\* leaves in the MemoryStorage (the FileStorage's stays), and memoryRet and
\* fileRet are what the two backends returned.
Called(op, args, m, memoryRet, fileRet) ==
    /\ calls < MaxPairCalls
    /\ CanRLock(mu)
    /\ calls' = calls + 1
    /\ pair' = [memory |-> m, op |-> op, args |-> args,
                memoryRet |-> memoryRet, fileRet |-> fileRet]
    /\ UNCHANGED <<impl, genLength, cache, pc, loc, ret, prev, clients>>
    /\ UNCHANGED <<pipeVars, selVars, genVars, httpVars>>
    /\ UNCHANGED <<cacheMu, mu, flushLock, dataFile, tmpFile, written>>

\* A call that writes: it is made when nobody holds fs.mu; f is the map it
\* leaves in the FileStorage, which it marks dirty.
CalledMutating(op, args, m, f, memoryRet, fileRet) ==
    /\ CanLock(mu)
    /\ Called(op, args, m, memoryRet, fileRet)
    /\ urls' = f
    /\ MarkDirty

\* Save on both
Pair_Save(shortID, originalURL, userID) ==
    CalledMutating("Save", <<shortID, originalURL, userID>>,
        MemSave(pair.memory, shortID, originalURL, userID),
        FileSave(urls, shortID, originalURL, userID),
        [err |-> ""], [err |-> ""])

\* SaveBatch on both
Pair_SaveBatch(items, userID) ==
    CalledMutating("SaveBatch", <<items, userID>>,
        MemSaveBatch(pair.memory, items, userID),
        FileSaveBatch(urls, items, userID),
        [err |-> ""], [err |-> ""])

\* Get on both
Pair_Get(shortID) ==
    /\ Called("Get", <<shortID>>, pair.memory,
              MemGet(pair.memory, shortID), FileGet(urls, shortID))
    /\ UNCHANGED <<urls, isDirty, flusher>>

\* FindByOriginalURL on both: each returns the first live match its own map
\* iteration meets.
Pair_FindByOriginalURL(originalURL) ==
    \E a \in MemFindByOriginalURL(pair.memory, originalURL),
       b \in FileFindByOriginalURL(urls, originalURL) :
        /\ Called("FindByOriginalURL", <<originalURL>>, pair.memory,
                  [id |-> a, err |-> ""], [id |-> b, err |-> ""])
        /\ UNCHANGED <<urls, isDirty, flusher>>

\* GetURLsByUserID on both
Pair_GetURLsByUserID(userID) ==
    /\ Called("GetURLsByUserID", <<userID>>, pair.memory,
              [list |-> MemGetURLsByUserID(pair.memory, userID), err |-> ""],
              [list |-> FileGetURLsByUserID(urls, userID), err |-> ""])
    /\ UNCHANGED <<urls, isDirty, flusher>>

\* DeleteURLs on both
Pair_DeleteURLs(shortIDs, userID) ==
    CalledMutating("DeleteURLs", <<shortIDs, userID>>,
        MemDeleteURLs(pair.memory, shortIDs, userID),
        FileDeleteURLs(urls, shortIDs, userID),
        [err |-> ""], [err |-> ""])

\* One call on both backends, or one step of a scheduleSave goroutine of the
\* FileStorage.
NextPair ==
    \/ \E id \in Generate(IdLen), u \in URLs, userID \in Users :
            Pair_Save(id, u, userID)
    \/ \E items \in ItemMaps, userID \in Users : Pair_SaveBatch(items, userID)
    \/ \E id \in Generate(IdLen) : Pair_Get(id)
    \/ \E u \in URLs : Pair_FindByOriginalURL(u)
    \/ \E userID \in Users : Pair_GetURLsByUserID(userID)
    \/ \E ids \in IdLists(IdLen, MaxDel), userID \in Users :
            Pair_DeleteURLs(ids, userID)
    \/ \E f \in Range(Flushers) : Flush(f)

\* Every sequence of MaxPairCalls calls, applied to both backends from the
\* empty state.
SpecPair == InitPair /\ [][NextPair]_vars


\* ------------------------------------------------------------------ claims

\* C1: dedup is global.  Two ShortenURL calls for the same URL, one directly
\* after the other, by any two users: when the first returned isNew=true (so
\* no live record held the URL) and the second succeeds, the second returns
\* isNew=false and the short URL the first returned.
C1_DedupGlobal ==
    [][\A t \in SeqThreads :
        (/\ Returns(t, "ShortenURL")
         /\ ret'[t].err = ""
         /\ Before(t).op = "ShortenURL"
         /\ Before(t).err = ""
         /\ Before(t).IsNew
         /\ Before(t).originalURL = ret'[t].originalURL)
        => /\ ~ret'[t].IsNew
           /\ ret'[t].ShortURL = Before(t).ShortURL]_vars

\* C2: in every reachable state at most one live record has a given
\* originalURL, whatever ShortenURL, ShortenBatch and DeleteURLs calls were
\* made on the initially empty backend.
C2_OneLiveRecordPerURL ==
    \A u \in URLs : Cardinality(LiveIDs(urls, u)) <= 1

\* C3: two ShortenURL calls for the same URL u, one per thread, interleaved
\* in any way on a store that holds no live record for u (they are the only
\* calls made): when both have returned without error, exactly one of them
\* returned isNew=true, both returned the same short URL, and the store holds
\* exactly one live record for u.
C3_ConcurrentShortenURL ==
    \A u \in URLs :
        (/\ calls = 2
         /\ \A t \in Threads :
                /\ pc[t] = "idle"
                /\ ret[t].op = "ShortenURL"
                /\ ret[t].originalURL = u
                /\ ret[t].err = "")
        => /\ Cardinality({t \in Threads : ret[t].IsNew}) = 1
           /\ \A t1, t2 \in Threads : ret[t1].ShortURL = ret[t2].ShortURL
           /\ Cardinality(LiveIDs(urls, u)) = 1

\* C4: sequential cache invalidation.  When U's cache entry is populated and
\* a ShortenURL(url, U) then returns isNew=true, the GetURLsByUserID(U) made
\* next returns a list that holds the new record (the returned short URL with
\* the submitted URL); and after a ShortenBatch(items, U) it holds, for every
\* item, a record with the item's URL under a short URL the batch returned.
C4_SequentialInvalidation ==
    [][\A t \in SeqThreads :
        (/\ Returns(t, "GetURLsByUserID")
         /\ ret'[t].err = ""
         /\ Before(t).userID = ret'[t].userID
         /\ Before(t).err = ""
         /\ Before(t).hadCache)
        => /\ (Before(t).op = "ShortenURL" /\ Before(t).IsNew)
                => \E e \in ret'[t].list :
                        /\ e.ShortURL = Before(t).ShortURL
                        /\ e.OriginalURL = Before(t).originalURL
           /\ Before(t).op = "ShortenBatch"
                => \A i \in 1..Len(Before(t).items) :
                        \E e \in ret'[t].list :
                            /\ e.OriginalURL = Before(t).items[i].OriginalURL
                            /\ \E j \in 1..Len(Before(t).resp) :
                                    e.ShortURL = Before(t).resp[j].ShortURL]_vars

\* C5: no stale read after a completed write, with calls running at once.
\* A GetURLsByUserID(U) that a thread starts after its own ShortenURL(url, U)
\* returned isNew=true (or its DeleteURLs(ids, U) returned nil), whatever the
\* other thread does meanwhile, reflects the write: while the backend holds
\* the new record live for U the list holds it, and the list holds no id of
\* the delete that the backend does not hold live for U.
C5_NoStaleReadAfterWrite ==
    [][\A t \in Threads :
        (/\ Returns(t, "GetURLsByUserID")
         /\ ret'[t].err = ""
         /\ Before(t).userID = ret'[t].userID
         /\ Before(t).err = "")
        => LET id == IdOfShortURL(Before(t).ShortURL)
               LiveOf(x) == /\ x \in DOMAIN urls
                            /\ urls[x].UserID = ret'[t].userID
                            /\ ~urls[x].IsDeleted
           IN  /\ (/\ Before(t).op = "ShortenURL"
                   /\ Before(t).IsNew
                   /\ LiveOf(id)
                   /\ urls[id].OriginalURL = Before(t).originalURL)
                  => \E e \in ret'[t].list :
                        /\ e.ShortURL = Before(t).ShortURL
                        /\ e.OriginalURL = Before(t).originalURL
               /\ Before(t).op = "DeleteURLs"
                  => \A e \in ret'[t].list :
                        IdOfShortURL(e.ShortURL) \in Range(Before(t).shortIDs)
                            => LiveOf(IdOfShortURL(e.ShortURL))]_vars

\* The methods that change a user's records.
MutatingCalls == {"ShortenURL", "ShortenBatch", "DeleteURLs"}

\* C6, as stated: when a ShortenURL, ShortenBatch or DeleteURLs call made
\* with userID U has returned (calls made one after the other, so that no
\* GetURLsByUserID ran meanwhile; here only calls that returned no error),
\* the cache holds no entry for U.
C6_EveryCallInvalidates ==
    \A t \in SeqThreads :
        (pc[t] = "idle" /\ ret[t].op \in MutatingCalls /\ ret[t].err = "")
            => ret[t].userID \notin DOMAIN cache

\* C6, amended: every ShortenBatch and DeleteURLs call made with userID U,
\* and every ShortenURL call that got as far as Save, has removed U's entry
\* when it returns; a ShortenURL call that returns from the lookup (a live
\* record found, or the lookup failed) or from a generator that gave no id
\* leaves the cache as it is; and no step of any of these calls touches the
\* entry of another user.
C6_WritingCallsInvalidate ==
    [][\A t \in SeqThreads :
        LET call == IF pc'[t] = "idle" THEN ret'[t] ELSE loc'[t]
            reachedWrite == \/ call.op \in {"ShortenBatch", "DeleteURLs"}
                            \/ call.op = "ShortenURL" /\ pc[t] = "ShortenURL_Save"
        IN  call.op \in MutatingCalls
            => /\ \A w \in Users \ {call.userID} :
                    /\ w \in DOMAIN cache <=> w \in DOMAIN cache'
                    /\ w \in DOMAIN cache => cache'[w] = cache[w]
               /\ (Returns(t, call.op) /\ reachedWrite)
                    => call.userID \notin DOMAIN cache'
               /\ (Returns(t, call.op) /\ ~reachedWrite) => cache' = cache]_vars

\* C6: a ShortenURL of U that created a record has returned, U's entry was
\* there when the call started and is gone, and another user's entry stays.
C6_Witness ==
    \E t \in SeqThreads :
        /\ pc[t] = "idle"
        /\ ret[t].op = "ShortenURL"
        /\ ret[t].IsNew
        /\ ret[t].hadCache
        /\ ret[t].userID \notin DOMAIN cache
        /\ \E w \in Users \ {ret[t].userID} : w \in DOMAIN cache /\ cache[w] # {}

\* The live records of userID in the backend, as (short URL, original URL)
\* pairs with the base URL put before the id once.
ExpectedList(m, userID) ==
    {<<BaseURL \o "/" \o id, m[id].OriginalURL>> :
        id \in {i \in DOMAIN m : m[i].UserID = userID /\ ~m[i].IsDeleted}}

\* The (short URL, original URL) pairs of a list.
Pairs(list) == {<<e.ShortURL, e.OriginalURL>> : e \in list}

\* C7: GetURLsByUserID is a read-through cache.  On a miss whose fetch
\* succeeds the call returns the backend's live records of the user, one
\* entry per record, each short URL being baseURL/id, and stores that list
\* under the user (other entries untouched).  On a hit it returns the stored
\* list in its first step, without a backend call or an error, and leaves
\* the cache as it is; called directly after a GetURLsByUserID of the same
\* user it returns the same list.  When the fetch fails the error is
\* returned and the cache is left as it was, with no entry for the user.
C7_ReadThroughCache ==
    [][\A t \in SeqThreads :
        Returns(t, "GetURLsByUserID")
        => LET r == ret'[t]
           IN  /\ (~r.hadCache /\ r.err = "")
                    => /\ pc[t] = "GetURLsByUserID_Store"
                       /\ Pairs(r.list) = ExpectedList(urls, r.userID)
                       /\ Cardinality(r.list) = Cardinality(ExpectedList(urls, r.userID))
                       /\ cache' = [w \in DOMAIN cache \cup {r.userID} |->
                                        IF w = r.userID THEN r.list ELSE cache[w]]
               /\ r.hadCache
                    => /\ pc[t] = "idle"
                       /\ r.err = ""
                       /\ r.list = cache[r.userID]
                       /\ cache' = cache
                       /\ (ret[t].op = "GetURLsByUserID"
                                /\ ret[t].userID = r.userID /\ ret[t].err = "")
                            => r.list = ret[t].list
               /\ r.err # ""
                    => /\ pc[t] = "GetURLsByUserID_Fetch"
                       /\ r.userID \notin DOMAIN cache'
                       /\ cache' = cache
               /\ urls' = urls]_vars

\* C7: a GetURLsByUserID hit has returned the stored list, which holds a
\* record of the backend under its full short URL.
C7_Witness ==
    \E t \in SeqThreads :
        /\ pc[t] = "idle"
        /\ ret[t].op = "GetURLsByUserID"
        /\ ret[t].hadCache
        /\ ret[t].list # {}
        /\ cache[ret[t].userID] = ret[t].list
        /\ \E e \in ret[t].list : IdOfShortURL(e.ShortURL) \in DOMAIN urls

\* C8: a ShortenBatch call that returned without error returned one result
\* per input item, in input order, each with the item's correlation id and
\* a short URL whose id Get resolves to the item's original URL (for every
\* batch over Cids and URLs, repeated URLs included).
C8_BatchCorrelation ==
    \A t \in SeqThreads :
        (pc[t] = "idle" /\ ret[t].op = "ShortenBatch" /\ ret[t].err = "")
        => /\ Len(ret[t].resp) = Len(ret[t].items)
           /\ \A i \in 1..Len(ret[t].items) :
                /\ ret[t].resp[i].CorrelationID = ret[t].items[i].CorrelationID
                /\ [url |-> ret[t].items[i].OriginalURL, found |-> TRUE]
                        \in BackendGet(impl, urls, IdOfShortURL(ret[t].resp[i].ShortURL))

\* C9: delete ownership isolation.  The backend step of DeleteURLs(ids, U)
\* leaves every record owned by another user exactly as it was, listed in
\* ids or not, so that Get of its id gives what it gave before; it creates
\* no record for an id that does not exist; on the memory and file backends the call
\* returns nil whatever ids are listed, and an error (which only a failed
\* SQL statement gives) comes with an unchanged store.
C9_DeleteOwnershipIsolation ==
    [][\A t \in SeqThreads :
        (Returns(t, "DeleteURLs") /\ pc[t] = "DeleteURLs_Backend")
        => /\ DOMAIN urls' = DOMAIN urls
           /\ \A id \in DOMAIN urls :
                urls[id].UserID # ret'[t].userID
                    => /\ urls'[id] = urls[id]
                       /\ BackendGet(impl, urls', id) = BackendGet(impl, urls, id)
           /\ impl # "sql" => ret'[t].err = ""
           /\ ret'[t].err # "" => urls' = urls]_vars

\* C9: a DeleteURLs call has returned nil whose list named a live record of
\* another user and an id that does not exist; the record is still resolvable.
C9_Witness ==
    \E t \in SeqThreads :
        /\ pc[t] = "idle"
        /\ ret[t].op = "DeleteURLs"
        /\ ret[t].err = ""
        /\ \E id \in Range(ret[t].shortIDs) :
                /\ id \in DOMAIN urls
                /\ urls[id].UserID # ret[t].userID
                /\ [url |-> urls[id].OriginalURL, found |-> TRUE]
                        \in BackendGet(impl, urls, id)
        /\ \E id \in Range(ret[t].shortIDs) : id \notin DOMAIN urls

\* What Get gives for an id that was never stored.
NeverStored(shortID) == BackendGet(impl, NewMemoryStorage, shortID)

\* C10: soft-delete opacity.  The backend step of a DeleteURLs(ids, U) that
\* returns nil leaves every listed record of U such that Get gives for it
\* what it gives for an id never stored, and leaves the records not listed
\* as they were; and a Get made directly after such a call returns
\* ("", false) for a listed id owned by U, while on the memory and file backends it
\* still returns the original URL of a live record.
C10_SoftDeleteOpacity ==
    [][\A t \in SeqThreads :
        /\ (Returns(t, "DeleteURLs") /\ pc[t] = "DeleteURLs_Backend"
                /\ ret'[t].err = "")
            => \A id \in DOMAIN urls :
                /\ (id \in Range(ret'[t].shortIDs)
                        /\ urls[id].UserID = ret'[t].userID)
                    => /\ BackendGet(impl, urls', id) = NeverStored(id)
                       /\ NeverStored(id) = {[url |-> "", found |-> FALSE]}
                /\ id \notin Range(ret'[t].shortIDs) => urls'[id] = urls[id]
        /\ (Returns(t, "Get") /\ ret[t].op = "DeleteURLs" /\ ret[t].err = "")
            => LET id == ret'[t].shortID
               IN  /\ (id \in Range(ret[t].shortIDs) /\ id \in DOMAIN urls
                            /\ urls[id].UserID = ret[t].userID)
                        => (ret'[t].url = "" /\ ~ret'[t].found)
                   /\ id \notin DOMAIN urls
                        => (ret'[t].url = "" /\ ~ret'[t].found)
                   /\ (impl # "sql" /\ id \in DOMAIN urls
                            /\ ~urls[id].IsDeleted)
                        => (ret'[t].url = urls[id].OriginalURL /\ ret'[t].found)
       ]_vars

\* C10: a Get has returned ("", false) for a record its owner deleted, and
\* another record of the same owner is still live and resolvable.
C10_Witness ==
    \E t \in SeqThreads :
        /\ pc[t] = "idle"
        /\ ret[t].op = "Get"
        /\ ~ret[t].found
        /\ ret[t].shortID \in DOMAIN urls
        /\ urls[ret[t].shortID].IsDeleted
        /\ \E other \in DOMAIN urls :
                /\ urls[other].UserID = urls[ret[t].shortID].UserID
                /\ ~urls[other].IsDeleted
                /\ [url |-> urls[other].OriginalURL, found |-> TRUE]
                        \in BackendGet(impl, urls, other)

\* C11: FindByOriginalURL matches only live records.  In its lookup step a
\* ShortenURL(u, _) call returns a stored id (isNew=false) only if a record
\* that is not deleted holds u under that id; when u is absent or all its
\* records are deleted the lookup gives the empty id, on the memory and file backends
\* always without an error (on SQL unless the query itself fails), and the
\* call goes on to generate an id; a call that went on and returns without
\* error returns isNew=true with an id the generator gave.
C11_FindMatchesOnlyLive ==
    [][\A t \in SeqThreads :
        LET call == IF pc'[t] = "idle" THEN ret'[t] ELSE loc'[t]
            live == {id \in DOMAIN urls :
                        /\ urls[id].OriginalURL = call.originalURL
                        /\ urls[id].IsDeleted = FALSE}
        IN  /\ (pc[t] = "idle" /\ call.op = "ShortenURL" /\ call # ret[t])
                => /\ (pc'[t] = "idle" /\ call.err = "")
                        => /\ ~call.IsNew
                           /\ IdOfShortURL(call.ShortURL) \in live
                   /\ live = {}
                        => \/ pc'[t] = "ShortenURL_Generate"
                           \/ impl = "sql" /\ pc'[t] = "idle" /\ call.err # ""
            /\ (Returns(t, "ShortenURL") /\ pc[t] = "ShortenURL_Save"
                    /\ call.err = "")
                => /\ call.IsNew
                   /\ IdOfShortURL(call.ShortURL) \in Generate(genLength)]_vars

\* C11: a ShortenURL(u, _) made right after a DeleteURLs has returned
\* isNew=true although a record of u is stored: that record is deleted, it
\* was named in the delete, and the new id is another one.
C11_Witness ==
    \E t \in SeqThreads :
        /\ pc[t] = "idle"
        /\ ret[t].op = "ShortenURL"
        /\ ret[t].IsNew
        /\ \E id \in DOMAIN urls :
                /\ urls[id].OriginalURL = ret[t].originalURL
                /\ urls[id].IsDeleted
                /\ id # IdOfShortURL(ret[t].ShortURL)
        /\ LiveIDs(urls, ret[t].originalURL) = {IdOfShortURL(ret[t].ShortURL)}

\* C12: the backend's GetURLsByUserID(U) returns exactly the records owned
\* by U and not deleted.  In the fetch step of the Service (the step in
\* which the calling goroutine leaves the fetch) the list that
\* came back names, one entry per record and with the record's original
\* URL, the ids whose record has U as its user and is not deleted: no id of
\* another user, no deleted id, none missing.  For a user without any
\* record the list is empty, and on the memory and file backends the fetch never
\* fails (on SQL the query, the scan of a row and the iteration can fail, and
\* a fetch that fails returns an error and no list).
C12_ListIsLiveRecordsOfUser ==
    [][\A t \in SeqThreads :
        pc[t] = "GetURLsByUserID_Fetch" /\ pc'[t] # pc[t]
        => LET U == loc[t].userID
               fetched == IF pc'[t] = "idle" THEN {} ELSE loc'[t].list
               ids == {IdOfShortURL(e.ShortURL) : e \in fetched}
           IN  /\ pc'[t] = "GetURLsByUserID_Store"
                    => /\ ids = {id \in DOMAIN urls :
                                    /\ urls[id].UserID = U
                                    /\ urls[id].IsDeleted = FALSE}
                       /\ Cardinality(fetched) = Cardinality(ids)
                       /\ \A e \in fetched :
                            /\ e.OriginalURL
                                    = urls[IdOfShortURL(e.ShortURL)].OriginalURL
                            /\ e.IsDeleted = FALSE
                       /\ (\A id \in DOMAIN urls : urls[id].UserID # U)
                            => fetched = {}
               /\ pc'[t] = "idle" => impl = "sql" /\ ret'[t].err # ""
               /\ impl # "sql" => pc'[t] = "GetURLsByUserID_Store"]_vars

\* C12: a fetch has returned a list that is not empty while the store also
\* holds a deleted record of the same user, which the list leaves out.
C12_Witness ==
    \E t \in SeqThreads :
        /\ pc[t] = "GetURLsByUserID_Store"
        /\ loc[t].list # {}
        /\ \E id \in DOMAIN urls :
                /\ urls[id].UserID = loc[t].userID
                /\ urls[id].IsDeleted
                /\ \A e \in loc[t].list : IdOfShortURL(e.ShortURL) # id

\* C13: Service.DeleteURLs is best-effort: whatever the backend did, the
\* error a DeleteURLs call has returned is nil.
C13_DeleteBestEffort ==
    \A t \in SeqThreads :
        (pc[t] = "idle" /\ ret[t].op = "DeleteURLs") => ret[t].err = ""

\* C14: Service.DeleteURLs returns the backend's outcome.  The call passes
\* its id list and user to the backend as given; when it returns nil the
\* store is the one the backend's delete of exactly these ids for exactly
\* this user leaves, and when it returns an error the error is the one the
\* backend's DeleteURLs gave and the store is unchanged; a call that left a
\* listed live record of the user undeleted does not return nil.
C14_DeleteReturnsBackendError ==
    [][\A t \in SeqThreads :
        (Returns(t, "DeleteURLs") /\ pc[t] = "DeleteURLs_Backend")
        => LET r == ret'[t]
               mine == {id \in DOMAIN urls :
                            id \in Range(r.shortIDs) /\ urls[id].UserID = r.userID}
           IN  /\ r.shortIDs = loc[t].shortIDs
               /\ r.userID = loc[t].userID
               /\ r.err = ""
                    => urls' = [id \in DOMAIN urls |->
                                    IF id \in mine
                                    THEN UserURL(id, urls[id].OriginalURL,
                                                 urls[id].UserID, TRUE)
                                    ELSE urls[id]]
               /\ r.err # ""
                    => /\ urls' = urls
                       /\ \E d \in BackendDeleteURLs(impl, urls, r.shortIDs,
                                                      r.userID) : d.err = r.err
               /\ (\E id \in mine : ~urls'[id].IsDeleted) => r.err # ""]_vars

\* C14: a DeleteURLs call has returned the backend's error; the record it
\* listed, a live one of the caller, is still live.
C14_Witness ==
    \E t \in SeqThreads :
        /\ pc[t] = "idle"
        /\ ret[t].op = "DeleteURLs"
        /\ ret[t].err = "failed to delete URLs: " \o DbError
        /\ \E id \in Range(ret[t].shortIDs) :
                /\ id \in DOMAIN urls
                /\ urls[id].UserID = ret[t].userID
                /\ ~urls[id].IsDeleted

\* C15: the effect of a delete is visible when the call returns.  When
\* DeleteURLs(ids, U) returns nil every listed record of U is marked deleted
\* in the store and U's other records are as they were; a Get of a listed id
\* of U made directly afterwards returns found=false; and a GetURLsByUserID(U)
\* made directly afterwards, when it succeeds, leaves out every listed id
\* and returns U's other live records.
C15_DeleteVisibleAtReturn ==
    [][\A t \in SeqThreads :
        LET d == Before(t)
            deleted == {id \in DOMAIN urls :
                            id \in Range(d.shortIDs) /\ urls[id].UserID = d.userID}
        IN  /\ (Returns(t, "DeleteURLs") /\ pc[t] = "DeleteURLs_Backend"
                    /\ ret'[t].err = "")
                => \A id \in DOMAIN urls' :
                    IF id \in Range(ret'[t].shortIDs)
                            /\ urls'[id].UserID = ret'[t].userID
                    THEN urls'[id].IsDeleted
                    ELSE id \in DOMAIN urls /\ urls'[id] = urls[id]
            /\ (Returns(t, "Get") /\ d.op = "DeleteURLs" /\ d.err = ""
                    /\ ret'[t].shortID \in deleted)
                => ~ret'[t].found
            /\ (Returns(t, "GetURLsByUserID") /\ d.op = "DeleteURLs"
                    /\ d.err = "" /\ ret'[t].userID = d.userID
                    /\ ret'[t].err = "")
                => /\ \A e \in ret'[t].list :
                        IdOfShortURL(e.ShortURL) \notin Range(d.shortIDs)
                   /\ \A id \in DOMAIN urls :
                        (urls[id].UserID = d.userID /\ ~urls[id].IsDeleted)
                        => \E e \in ret'[t].list :
                            /\ e.ShortURL = ShortURLOf(id)
                            /\ e.OriginalURL = urls[id].OriginalURL]_vars

\* C15: the GetURLsByUserID(U) made directly after a DeleteURLs(ids, U) that
\* returned nil has fetched a list: a listed record of U is deleted and is
\* not in the list, another record of U is.
C15_Witness ==
    \E t \in SeqThreads :
        /\ pc[t] = "GetURLsByUserID_Store"
        /\ prev[t].op = "DeleteURLs"
        /\ prev[t].err = ""
        /\ prev[t].userID = loc[t].userID
        /\ loc[t].list # {}
        /\ \E id \in Range(prev[t].shortIDs) :
                /\ id \in DOMAIN urls
                /\ urls[id].UserID = loc[t].userID
                /\ urls[id].IsDeleted
                /\ \A e \in loc[t].list : e.ShortURL # ShortURLOf(id)

\* C16: bounded fan-out.  In every state of a DeleteURLs call of the
\* pipeline, whatever the length of the id list, at most 4 backend delete
\* calls have begun and not yet returned.
C16_BoundedFanOut == Cardinality(InProgress) <= 4

\* C16: four backend calls are in progress while the dispatcher still has an
\* id of the list to start.
C16_Witness ==
    /\ Cardinality(InProgress) = 4
    /\ dispatcher.pc = "dispatch"
    /\ dispatcher.i \in Positions

\* The goroutines whose backend call has returned.
Completed == {i \in DOMAIN worker : worker[i].pc \in {"returned", "sent", "exit"}}

\* C17: at-least-attempted delete.  For every position of the id list the
\* backend's DeleteURLs is called once, never twice, with the id of that
\* position and the caller's user, and the call returns in the end (a call
\* that returned nil has marked the id's record if the user owns it),
\* whether the caller's context is cancelled or not.
C17_EveryIdAttempted ==
    /\ [](\A i \in Positions :
            /\ worker[i].calls <= 1
            /\ (i \in Completed /\ worker[i].err = ""
                    /\ urls[del.shortIDs[i]].UserID = del.userID)
                => urls[del.shortIDs[i]].IsDeleted)
    /\ \A i \in 1..MaxPipeIDs :
            <>[](i \in Positions => (i \in Completed /\ worker[i].calls = 1))

\* C17: the caller has returned with its context's error before the last
\* id was started, and every position of the longest list has had its call.
C17_Witness ==
    /\ Len(del.shortIDs) = MaxPipeIDs
    /\ caller = [pc |-> "returned", err |-> Canceled]
    /\ ~done
    /\ Completed = Positions
    /\ \A i \in Positions : worker[i].calls = 1

\* C18: DeleteURLs returns, and never blocks forever.  It returns nil only
\* when done is closed, that is after every result was collected; it
\* returns an error only when its context is cancelled, and the error is
\* the context's; and in every run the caller does return.
C18_CallerReturns ==
    /\ [](caller.pc = "returned"
            => \/ caller.err = "" /\ done /\ Completed = Positions
               \/ caller.err = Canceled /\ ctxDone)
    /\ <>[](caller.pc = "returned")

\* C18: the caller has returned at once with the context's error, while
\* backend calls are in progress and ids are still to be started.
C18_Witness ==
    /\ caller = [pc |-> "returned", err |-> Canceled]
    /\ InProgress # {}
    /\ dispatcher.pc = "dispatch"
    /\ dispatcher.i \in Positions
    /\ ~done

\* C19: storage selection is a priority chain.  When NewStorage returns,
\* the error is nil and the handle has a backend; the backend is SQL exactly
\* when a DSN was given and the SQL construction succeeded, File exactly
\* when it is not SQL, a path was given and the File construction
\* succeeded, and Memory otherwise.
C19_StoragePriorityChain ==
    newStorage.pc = "returned"
    => LET sqlBuilt == env.databaseDSN # "" /\ env.db = "up"
           fileBuilt == env.fileStoragePath # ""
                            /\ env.file \in {"absent", "valid"}
       IN  /\ newStorage.err = ""
           /\ impl \in {"sql", "file", "memory"}
           /\ impl = "sql" <=> sqlBuilt
           /\ impl = "file" <=> (~sqlBuilt /\ fileBuilt)
           /\ impl = "memory" <=> (~sqlBuilt /\ ~fileBuilt)

\* C19: NewStorage has returned the File backend for a DSN whose server
\* cannot be reached and a path at which a data file can be read.
C19_Witness ==
    /\ newStorage.pc = "returned"
    /\ impl = "file"
    /\ env.databaseDSN # ""
    /\ env.db = "down"
    /\ env.file = "valid"

\* C20: Ping on the Memory and the File backend fails in every state with
\* the error "<memory|file> storage does not support database connection
\* check", and Service.Ping returns what the backend's Ping returned: that
\* error on Memory and File, nil or the pool's error as it is on SQL.  The
\* call is one step and leaves the cache and the store as they are.
C20_PingForwarded ==
    [][\A t \in SeqThreads :
        (pc'[t] = "idle" /\ ret'[t].op = "Ping" /\ ret'[t] # ret[t])
        => LET e == ret'[t].err
               fixed == " storage does not support database connection check"
           IN  /\ pc[t] = "idle"
               /\ impl = "memory" => e = "memory" \o fixed
               /\ impl = "file" => e = "file" \o fixed
               /\ impl = "sql" => e \in {"", DbError}
               /\ cache' = cache
               /\ urls' = urls]_vars

\* C20: a Ping on the File backend has returned the fixed error while the
\* store holds a record and a scheduleSave goroutine is writing the file.
C20_Witness ==
    \E t \in SeqThreads :
        /\ pc[t] = "idle"
        /\ ret[t].op = "Ping"
        /\ impl = "file"
        /\ ret[t].err = "file storage does not support database connection check"
        /\ urls # <<>>
        /\ \E f \in Range(Flushers) : flusher[f].pc = "saveToFile_Encode"

\* C21: a failed dedup lookup is never taken for "not found".  A ShortenURL
\* call goes on to the generator only when no live record with an id holds
\* the URL, and a call that returns the lookup's error returns it in its
\* first step, with no result, no record created and the cache unchanged.
C21_LookupErrorIsNotAMiss ==
    [][\A t \in SeqThreads :
        /\ (pc[t] = "idle" /\ pc'[t] = "ShortenURL_Generate")
            => \A id \in DOMAIN urls :
                (urls[id].OriginalURL = loc'[t].originalURL
                    /\ ~urls[id].IsDeleted) => id = ""
        /\ (Returns(t, "ShortenURL")
                /\ ret'[t].err = "error finding URL: failed to find URL: " \o DbError)
            => /\ pc[t] = "idle"
               /\ impl = "sql"
               /\ ret'[t].ShortURL = ""
               /\ ~ret'[t].IsNew
               /\ urls' = urls
               /\ cache' = cache]_vars

\* C21: a ShortenURL call has returned the lookup's error for a URL that a
\* live record holds, with the caller's cache entry in place.
C21_Witness ==
    \E t \in SeqThreads :
        /\ pc[t] = "idle"
        /\ ret[t].op = "ShortenURL"
        /\ ret[t].err = "error finding URL: failed to find URL: " \o DbError
        /\ LiveIDs(urls, ret[t].originalURL) # {}
        /\ ret[t].userID \in DOMAIN cache

\* C22: an empty generated id fails the request.  In its generation step
\* (the step in which the calling goroutine leaves the generation) a
\* ShortenURL call whose generator yields the empty id returns the error
\* "failed to generate short ID" with no result, in that one step (no
\* second generation), with the store and the cache unchanged; a call that
\* goes on to Save carries an id that is not empty.
C22_EmptyIdFailsShortenURL ==
    [][\A t \in SeqThreads :
        pc[t] = "ShortenURL_Generate" /\ pc'[t] # pc[t]
        => /\ genLength = 0
                => /\ pc'[t] = "idle"
                   /\ ret'[t].op = "ShortenURL"
                   /\ ret'[t].err = "failed to generate short ID"
           /\ pc'[t] = "idle"
                => /\ ret'[t].err = "failed to generate short ID"
                   /\ ret'[t].ShortURL = ""
                   /\ ~ret'[t].IsNew
                   /\ urls' = urls
                   /\ cache' = cache
           /\ pc'[t] = "ShortenURL_Save" => loc'[t].shortID # ""]_vars

\* C22: a ShortenURL call has failed on the empty id; the caller's cache
\* entry is in place and the store has no record of the URL.
C22_Witness ==
    \E t \in SeqThreads :
        /\ pc[t] = "idle"
        /\ ret[t].op = "ShortenURL"
        /\ ret[t].err = "failed to generate short ID"
        /\ ret[t].userID \in DOMAIN cache
        /\ \A id \in DOMAIN urls : urls[id].OriginalURL # ret[t].originalURL

\* C23: a failed write leaves the invalidation in place.  When Save fails,
\* ShortenURL returns the error and no result; when SaveBatch fails,
\* ShortenBatch returns the error and no responses; the store is unchanged
\* and the user's cache entry, dropped before the write, is absent when the
\* call returns.  The GetURLsByUserID of that user made directly afterwards
\* misses the cache and, when its fetch succeeds, returns the backend's live
\* records of the user and stores them.
C23_FailedWriteKeepsInvalidation ==
    [][\A t \in SeqThreads :
        /\ (Returns(t, "ShortenURL") /\ pc[t] = "ShortenURL_Save"
                /\ ret'[t].err # "")
            => /\ ret'[t].err = "error saving URL: failed to save URL: " \o DbError
               /\ ret'[t].ShortURL = ""
               /\ ~ret'[t].IsNew
               /\ urls' = urls
               /\ ret'[t].userID \notin DOMAIN cache'
        /\ (Returns(t, "ShortenBatch") /\ ret'[t].err # "")
            => /\ ret'[t].err \in
                    {"error saving URL batch: " \o e :
                        e \in DbSaveBatchErrors(ret'[t].items)}
               /\ ret'[t].resp = <<>>
               /\ urls' = urls
               /\ ret'[t].userID \notin DOMAIN cache'
        /\ (Returns(t, "GetURLsByUserID")
                /\ Before(t).op \in {"ShortenURL", "ShortenBatch"}
                /\ Before(t).err \notin {"", "failed to generate short ID",
                        "error finding URL: failed to find URL: " \o DbError}
                /\ Before(t).userID = ret'[t].userID)
            => /\ ~ret'[t].hadCache
               /\ ret'[t].err = ""
                    => /\ Pairs(ret'[t].list) = ExpectedList(urls, ret'[t].userID)
                       /\ cache'[ret'[t].userID] = ret'[t].list]_vars

\* C23: a ShortenURL call has returned Save's error; the caller had a cache
\* entry when the call began and has none now.
C23_Witness ==
    \E t \in SeqThreads :
        /\ pc[t] = "idle"
        /\ ret[t].op = "ShortenURL"
        /\ ret[t].err = "error saving URL: failed to save URL: " \o DbError
        /\ ret[t].hadCache
        /\ ret[t].userID \notin DOMAIN cache

\* The steps in which a backend method reads the map for its caller.
ReadSteps == {"ShortenURL_muRUnlock", "GetURLsByUserID_muRUnlock", "Get_muRUnlock"}

\* C24: SaveBatch of the memory and file backends is atomic for readers.
\* Whenever a Get, a FindByOriginalURL or a GetURLsByUserID reads the map, it
\* holds the read lock, and no SaveBatch has stored some but not all of the
\* items of its batch.
C24_SaveBatchAtomicForReaders ==
    [][\A t \in Threads :
        (pc[t] \in ReadSteps /\ pc'[t] # pc[t])
            => /\ t \in mu.r
               /\ \A w \in Threads :
                    written[w] = {} \/ written[w] = DOMAIN loc[w].batch]_vars

\* A GetURLsByUserID waits for the read lock while a SaveBatch of the same
\* user has stored one item of two.
C24_Witness ==
    \E w \in Threads, t \in Threads :
        /\ t # w
        /\ pc[w] = "SaveBatch_Store"
        /\ Cardinality(DOMAIN loc[w].batch) = 2
        /\ Cardinality(written[w]) = 1
        /\ pc[t] = "GetURLsByUserID_muRLock"
        /\ loc[t].userID = loc[w].userID

\* C25: SaveBatch of the SQL backend is all-or-nothing.  The table changes
\* only in the step in which a SaveBatch commits, and then every pair of the
\* batch is in the table (a row that was there stays as it was); a SaveBatch
\* that returns an error (of Begin, of an Exec or of Commit) leaves the table
\* as it was when the call began, and a successful one has committed.
C25_SqlSaveBatchAllOrNothing ==
    [][/\ urls' # urls
            => \E t \in Threads :
                /\ pc[t] = "SaveBatch_Exec" /\ pc'[t] = "idle"
                /\ ret'[t].err = ""
                /\ urls' = DbInsertURLBatch(urls, loc[t].batch, loc[t].userID)
                /\ DOMAIN loc[t].batch \subseteq DOMAIN urls'
       /\ \A t \in Threads :
            (pc[t] # "idle" /\ pc'[t] = "idle")
                => IF ret'[t].err = ""
                   THEN /\ DOMAIN ret'[t].batch \subseteq DOMAIN urls'
                        /\ urls' = DbInsertURLBatch(urls, ret'[t].batch,
                                                    ret'[t].userID)
                   ELSE /\ urls' = urls
                        /\ ret'[t].err \in DbSaveBatchErrors(ret'[t].batch)]_vars

\* C25: a SaveBatch of two pairs returned the error of Commit after both
\* inserts, and neither row is in the table.
C25_Witness ==
    \E t \in Threads :
        /\ pc[t] = "idle"
        /\ ret[t].op = "SaveBatch"
        /\ ret[t].err = "failed to commit transaction: " \o DbError
        /\ Cardinality(DOMAIN ret[t].batch) = 2
        /\ DOMAIN ret[t].batch \cap DOMAIN urls = {}

\* C26: on the memory backend a Save whose shortID is already stored returns
\* no error and replaces the record: afterwards the record of that shortID
\* carries the new originalURL and the new userID, it is the only record of
\* that shortID, and every other record is as it was.
C26_MemorySaveReplaces ==
    [][\A t \in Threads :
        (/\ impl = "memory"
         /\ pc[t] = "ShortenURL_Save" /\ pc'[t] = "idle"
         /\ loc[t].shortID \in DOMAIN urls)
            => /\ ret'[t].err = ""
               /\ urls'[loc[t].shortID].OriginalURL = loc[t].originalURL
               /\ urls'[loc[t].shortID].UserID = loc[t].userID
               /\ Cardinality({x \in DOMAIN urls' :
                        urls'[x].ShortURL = loc[t].shortID}) = 1
               /\ DOMAIN urls' = DOMAIN urls
               /\ \A x \in DOMAIN urls \ {loc[t].shortID} : urls'[x] = urls[x]]_vars

\* C26: on the memory backend two ShortenURL calls for different URLs by
\* different users were both given the same new id, and the one record of
\* that id is the later call's.
C26_Witness ==
    /\ impl = "memory"
    /\ \E t \in Threads, o \in Threads :
        /\ pc[t] = "idle" /\ pc[o] = "idle"
        /\ ret[t].op = "ShortenURL" /\ ret[t].IsNew
        /\ ret[o].op = "ShortenURL" /\ ret[o].IsNew
        /\ ret[t].ShortURL = ret[o].ShortURL
        /\ ret[t].originalURL # ret[o].originalURL
        /\ ret[t].userID # ret[o].userID
        /\ DOMAIN urls = {IdOfShortURL(ret[t].ShortURL)}
        /\ urls[IdOfShortURL(ret[t].ShortURL)] =
                UserURL(IdOfShortURL(ret[t].ShortURL), ret[t].originalURL,
                        ret[t].userID, FALSE)

\* Goroutine g holds Service.cacheMu, for reading or writing.
HoldsCacheMu(g) == cacheMu.w = g \/ g \in cacheMu.r

\* Goroutine g holds the backend's mu, for reading or writing.
HoldsMu(g) == mu.w = g \/ g \in mu.r

\* The steps of a thread inside a backend method, from the call to the return.
BackendSteps ==
    {"ShortenURL_muRUnlock", "ShortenURL_muLock", "ShortenURL_muUnlock",
     "SaveBatch_muLock", "SaveBatch_Store",
     "GetURLsByUserID_muRLock", "GetURLsByUserID_muRUnlock",
     "DeleteURLs_muLock", "DeleteURLs_muUnlock", "Get_muRUnlock"}

\* C27 (lock order): no thread holds the cache lock while it is inside a
\* backend call, no goroutine holding the backend's lock holds or takes the
\* cache lock, and no goroutine takes the flush mutex while it holds the
\* backend's lock; the scheduleSave goroutines never touch the cache lock.
LockOrder ==
    /\ \A t \in Threads : pc[t] \in BackendSteps => ~HoldsCacheMu(t)
    /\ \A t \in Threads : HoldsMu(t) => ~HoldsCacheMu(t)
    /\ \A f \in Range(Flushers) : ~HoldsCacheMu(f)
    /\ \A f \in Range(Flushers) :
            flusher[f].pc = "scheduleSave_flushLock" => ~HoldsMu(f)
    /\ \A t \in Threads : flushLock # t

\* C27: deadlock freedom over the memory and file backends, flushes
\* included.  The lock order above holds in every state, and under fair
\* scheduling every call that was begun returns and every scheduleSave
\* goroutine that was started ends: nothing blocks for ever.
C27_DeadlockFreedom ==
    /\ []LockOrder
    /\ [][\A t \in Threads :
            (HoldsCacheMu(t)' /\ ~HoldsCacheMu(t)) => ~HoldsMu(t)]_vars
    /\ \A t \in Threads : (pc[t] # "idle") ~> (pc[t] = "idle")
    /\ \A f \in Range(Flushers) :
            (flusher[f].pc # "none") ~> (flusher[f].pc = "none")

\* C27: on the file backend a scheduleSave goroutine holds the flush mutex
\* and waits for the map lock, which a request thread holds for writing
\* inside SaveBatch.
C27_Witness ==
    /\ impl = "file"
    /\ \E f \in Range(Flushers), t \in Threads :
        /\ flushLock = f
        /\ flusher[f].pc \in {"scheduleSave_muRLock", "saveToFile_muRLock",
                              "saveToFile_muLock"}
        /\ mu.w = t
        /\ pc[t] = "SaveBatch_Store"

\* The scheduleSave goroutines that are inside saveToFile, up to the rename.
Writing ==
    {f \in Range(Flushers) :
        flusher[f].pc \in {"saveToFile_Create", "saveToFile_muRLock",
                           "saveToFile_muRUnlock", "saveToFile_Encode",
                           "saveToFile_Rename"}}

\* C28: the file backend's flushes are serialized.  At most one scheduleSave
\* goroutine at a time is between creating the temporary file and renaming
\* it, and it holds the flush mutex; a flush copies the whole map in one step,
\* under the read lock, while no batch is stored in part; the data file
\* changes only by a flush's rename, which leaves it holding exactly that
\* copy, encoded by that flush and by no other.
C28_FlushesSerialized ==
    /\ [](/\ Cardinality(Writing) <= 1
          /\ \A f \in Writing : flushLock = f)
    /\ [][\A f \in Range(Flushers) :
            (flusher[f].pc = "saveToFile_muRUnlock"
                    /\ flusher'[f].pc = "saveToFile_Encode")
                => /\ f \in mu.r
                   /\ flusher'[f].entries = Entries(urls)
                   /\ \A w \in Threads :
                        written[w] = {} \/ written[w] = DOMAIN loc[w].batch]_vars
    /\ [][dataFile' # dataFile
            => \E f \in Range(Flushers) :
                /\ flusher[f].pc = "saveToFile_Rename"
                /\ flusher'[f].pc = "saveToFile_muLock"
                /\ dataFile' = [exists |-> TRUE, json |-> TRUE,
                                entries |-> Encode(flusher[f].entries)]]_vars

\* C28: after two mutating calls a flush has renamed its snapshot of two
\* records over the data file, while the other call's scheduleSave goroutine
\* waits for the flush mutex.
C28_Witness ==
    /\ impl = "file"
    /\ \E f \in Range(Flushers), g \in Range(Flushers) :
        /\ f # g
        /\ flusher[f].pc = "saveToFile_muLock"
        /\ flusher[g].pc = "scheduleSave_flushLock"
        /\ dataFile.exists
        /\ dataFile.entries = Encode(flusher[f].entries)
        /\ Cardinality(dataFile.entries) = 2

\* C29: the file backend's load round trip.  NewFileStorage over a path with
\* no file gives an empty storage and no error; over a file it cannot open
\* or decode it fails; over the file a flush of a storage wrote it gives a
\* storage with the same records (shortID, originalURL, userID, deleted
\* flag), so a record that was deleted does not resolve.
C29_LoadRoundTrip ==
    [][(newStorage.pc = "none" /\ newStorage'.pc = "file")
        => /\ ~dataFile.exists
                => newStorage'.err = "" /\ impl' = "file" /\ urls' = <<>>
           /\ (dataFile.exists /\ ~dataFile.json)
                => newStorage'.err # "" /\ impl' = "nil"
           /\ newStorage'.err # "" => dataFile.exists /\ impl' = "nil"
           /\ (/\ dataFile = [exists |-> TRUE, json |-> TRUE,
                              entries |-> Encode(Entries(urls))]
               /\ newStorage'.err = "")
                => /\ urls' = urls
                   /\ \A id \in DOMAIN urls :
                        urls[id].IsDeleted => ~FileGet(urls', id).found]_vars

\* C30: every result of Generate has exactly the configured length and only
\* letters of the alphabet, and it is made of the letters that were drawn
\* for this call, in their order, also when the callers share the generator:
\* no caller gets a string another call wrote a part of.
C30_GenerateLengthAndAlphabet ==
    \A t \in Threads :
        (gen[t].pc = "idle" /\ gen[t].n > 0)
            => /\ Len(gen[t].id) = genLength
               /\ Chars(gen[t].id) \subseteq Letters
               /\ gen[t].id \in Generate(genLength)
               /\ gen[t].id = gen[t].picked

\* C30: of a generator of length 2 one caller holds a result while the
\* other, inside its own call, has overwritten the first byte of the shared
\* buffer with another letter.
C30_Witness ==
    \E t \in Threads, o \in Threads :
        /\ genLength = 2
        /\ gen[t].pc = "idle" /\ gen[t].n > 0
        /\ gen[o].pc = "Generate_Fill" /\ gen[o].i = 2
        /\ genMu = o
        /\ buffer[1] # SubSeq(gen[t].id, 1, 1)

\* C31: the status of the handlers' answers.  A shorten request (text or
\* JSON) whose ShortenURL call succeeded is answered 201 when the Service
\* reported IsNew, and 409 with the short URL of the record that exists for
\* the URL of the request when it did not; the short URL is the text of the
\* answer, or the result of its JSON object.  A redirect is answered 307 with the
\* record's original URL in Location when Get found the id, and 410 when it did
\* not, and it does not find an id that is absent or deleted.  A delete
\* request whose DeleteURLs call succeeded is answered 202, and one without
\* a cookie with a valid signature is answered 401 with no call of the
\* Service.
C31_HandlerStatusMapping ==
    \A t \in Threads :
        LET h == http[t]
            r == ret[t]
        IN  (h.pc = "idle" /\ h.status # 0) =>
                /\ (h.handler = "HandleShortenURL" /\ r.op = "ShortenURL"
                        /\ r.err = "")
                     => /\ h.status = IF r.IsNew THEN 201 ELSE 409
                        /\ h.body = r.ShortURL
                        /\ ~r.IsNew =>
                            \E id \in DOMAIN urls :
                                /\ h.body = ShortURLOf(id)
                                /\ urls[id].OriginalURL = h.arg
                /\ (h.handler = "HandleShortenURLJSON" /\ r.op = "ShortenURL"
                        /\ r.err = "")
                     => /\ h.status = IF r.IsNew THEN 201 ELSE 409
                        /\ h.json = [result |-> r.ShortURL]
                        /\ ~r.IsNew =>
                            \E id \in DOMAIN urls :
                                /\ h.json.result = ShortURLOf(id)
                                /\ urls[id].OriginalURL = h.arg
                /\ h.handler = "HandleRedirect"
                     => /\ r.op = "Get"
                        /\ h.status = IF r.found THEN 307 ELSE 410
                        /\ r.found => /\ h.location = r.url
                                      /\ h.arg \in DOMAIN urls
                                      /\ h.location = urls[h.arg].OriginalURL
                        /\ (h.arg \notin DOMAIN urls \/ urls[h.arg].IsDeleted)
                             => h.status = 410
                /\ h.handler = "HandleDeleteURLs"
                     => /\ (r.op = "DeleteURLs" /\ r.err = "") <=> h.status = 202
                        /\ h.userID = "" <=> h.status = 401
                        /\ h.status = 401 => r = NoCall

\* A request of a user without a cookie is answered 409 with the short URL
\* of a record another user owns.
C31_Witness ==
    \E t \in Threads, id \in DOMAIN urls :
        /\ http[t].pc = "idle"
        /\ http[t].handler = "HandleShortenURL"
        /\ http[t].status = 409
        /\ http[t].userID \in UUIDs
        /\ http[t].body = ShortURLOf(id)
        /\ urls[id].UserID \in Users
        /\ ret[t].op = "ShortenURL" /\ ~ret[t].IsNew

\* C32: on the SQL backend a Save whose shortID is already a row leaves the
\* table as it was, and the conflict is no error: the call can succeed, and
\* the only error it can return is that of a failed statement.  A SaveBatch
\* leaves every row that was there as it was, whatever the batch holds, and
\* can succeed as well.  No shortID ever has two rows.
C32_SqlInsertKeepsExistingRow ==
    [][\A t \in Threads :
        /\ (/\ impl = "sql"
            /\ pc[t] = "ShortenURL_Save" /\ pc'[t] = "idle"
            /\ loc[t].shortID \in DOMAIN urls)
             => /\ urls' = urls
                /\ [err |-> "", urls |-> urls]
                      \in BackendSave(impl, urls, loc[t].shortID,
                                      loc[t].originalURL, loc[t].userID)
                /\ ret'[t].err \in
                      {"", "error saving URL: failed to save URL: " \o DbError}
                /\ Cardinality({x \in DOMAIN urls' :
                        urls'[x].ShortURL = loc[t].shortID}) = 1
        /\ (/\ impl = "sql"
            /\ pc[t] = "ShortenBatch_Save" /\ pc'[t] = "idle")
             => /\ \A id \in DOMAIN urls :
                    id \in DOMAIN urls' /\ urls'[id] = urls[id]
                /\ \E s \in BackendSaveBatch(impl, urls, loc[t].batch,
                                             loc[t].userID) :
                    /\ s.err = ""
                    /\ \A id \in DOMAIN urls : s.urls[id] = urls[id]
                /\ ret'[t].err = ""
                     => DOMAIN urls' = DOMAIN urls \cup DOMAIN loc[t].batch
                /\ \A id \in DOMAIN urls' :
                    Cardinality({x \in DOMAIN urls' :
                        urls'[x].ShortURL = urls'[id].ShortURL}) = 1]_vars

\* A ShortenURL on the SQL backend returned success for an id whose row holds
\* another URL of another user.
C32_Witness ==
    \E t \in Threads :
        /\ impl = "sql"
        /\ pc[t] = "idle"
        /\ ret[t].op = "ShortenURL" /\ ret[t].err = "" /\ ret[t].IsNew
        /\ IdOfShortURL(ret[t].ShortURL) \in DOMAIN urls
        /\ urls[IdOfShortURL(ret[t].ShortURL)].OriginalURL # ret[t].originalURL
        /\ urls[IdOfShortURL(ret[t].ShortURL)].UserID # ret[t].userID

\* C33: a ShortenBatch whose generator gave the empty id to one of its items
\* returns an error and stores nothing, and no record is ever stored under
\* the empty shortID.
C33_EmptyIdFailsShortenBatch ==
    [][/\ \A t \in Threads :
            (/\ pc[t] = "ShortenBatch_Save" /\ pc'[t] = "idle"
             /\ "" \in DOMAIN loc[t].batch)
                => /\ ret'[t].err # ""
                   /\ urls' = urls
       /\ "" \notin DOMAIN urls']_vars

\* C34: on the file backend, whenever no call is running, no scheduleSave
\* goroutine is running and isDirty is false, the data file holds exactly
\* the records of the map.
C34_QuiescentFileEqualsMap ==
    (/\ impl = "file"
     /\ \A t \in Threads : pc[t] = "idle"
     /\ \A f \in Range(Flushers) : flusher[f].pc = "none"
     /\ ~isDirty)
        => dataFile.entries = Encode(Entries(urls))

\* C35: the short URL a successful ShortenURL returned stays bound to the
\* URL of that call: in every later state the record of its id holds that
\* URL, unless the record has been deleted.
C35_ShortURLStaysBound ==
    \A t \in Threads :
        (pc[t] = "idle" /\ ret[t].op = "ShortenURL" /\ ret[t].err = "")
            => LET id == IdOfShortURL(ret[t].ShortURL)
               IN  /\ id \in DOMAIN urls
                   /\ \/ urls[id].IsDeleted
                      \/ urls[id].OriginalURL = ret[t].originalURL

\* C36: deletion is permanent.  No step of a Service method makes a deleted
\* record live again or removes it, so Get never finds its id again; and a
\* DeleteURLs that repeats the ids and the user of the call before it
\* leaves the store as it is.
C36_DeletionPermanent ==
    [][/\ \A id \in DOMAIN urls :
            urls[id].IsDeleted
                => /\ id \in DOMAIN urls'
                   /\ urls'[id].IsDeleted
                   /\ \A g \in BackendGet(impl, urls', id) : ~g.found
       /\ \A t \in Threads :
            (/\ pc[t] = "DeleteURLs_Backend" /\ pc'[t] = "idle"
             /\ prev[t].op = "DeleteURLs" /\ prev[t].err = ""
             /\ prev[t].shortIDs = loc[t].shortIDs
             /\ prev[t].userID = loc[t].userID)
                => urls' = urls]_vars

\* C37: a ShortenURL(u, user2) that returns IsNew=false for a record of
\* another user changes nothing: it returns from its lookup, with the store
\* and the cache as they were; the GetURLsByUserID(user2) made
\* directly after it does not list u; and the DeleteURLs([id], user2) made
\* directly after it leaves the record as it was.
C37_ExistingURLChangesNothing ==
    [][\A t \in Threads :
        LET b == Before(t)
            id == IdOfShortURL(b.ShortURL)
            other ==
                /\ b.op = "ShortenURL" /\ b.err = "" /\ ~b.IsNew
                /\ id \in DOMAIN urls
                /\ urls[id].UserID # b.userID
        IN  /\ (/\ Returns(t, "ShortenURL")
                /\ ret'[t].err = "" /\ ~ret'[t].IsNew)
                 => /\ pc[t] = "idle"
                    /\ urls' = urls
                    /\ cache' = cache
            /\ (/\ Returns(t, "GetURLsByUserID") /\ other
                /\ ret'[t].userID = b.userID /\ ret'[t].err = "")
                 => \A e \in ret'[t].list : e.OriginalURL # b.originalURL
            /\ (/\ Returns(t, "DeleteURLs") /\ other
                /\ ret'[t].userID = b.userID
                /\ ret'[t].shortIDs = <<id>>)
                 => urls' = urls]_vars

\* C38: the delete pipeline terminates.  A goroutine that has its outcome
\* always finds room for it in the results channel, so its send never
\* waits; and in every run, for every id list and whether or not the
\* caller's context is cancelled, in the end the dispatcher has closed done
\* and ended, every goroutine of a position has ended, and every token of
\* the workers channel has been given back.
C38_PipelineTerminates ==
    /\ [](\A i \in Positions :
            worker[i].pc = "returned" => Len(results) < Len(del.shortIDs))
    /\ <>[](/\ dispatcher.pc = "exit"
            /\ done
            /\ workers = 0
            /\ results = <<>>
            /\ \A i \in Positions : worker[i].pc = "exit")

\* The pipeline of the longest list, longer than the pool, has ended after
\* the caller stopped waiting: done is closed, the goroutines are gone and the
\* pool is empty.
C38_Witness ==
    /\ Len(del.shortIDs) = MaxPipeIDs
    /\ Len(del.shortIDs) > PoolSize
    /\ caller = [pc |-> "returned", err |-> Canceled]
    /\ dispatcher.pc = "exit"
    /\ done
    /\ workers = 0
    /\ \A i \in Positions : worker[i].pc = "exit"

\* C39 as stated: after every call the two backends have returned the same
\* result (lists as sets) and hold the same map.
C39_SameResults ==
    /\ pair.memoryRet = pair.fileRet
    /\ pair.memory = urls

\* C39, amended: after every call, and after every step of a scheduleSave
\* goroutine, the two backends hold the same map; Save, SaveBatch, Get,
\* GetURLsByUserID and DeleteURLs have returned the same result on both
\* (lists as sets); FindByOriginalURL has returned on each an id the other
\* could have returned as well, and the same id on both when at most one live
\* record holds the URL.
C39_BackendsEquivalent ==
    /\ pair.memory = urls
    /\ pair.op \in {"Save", "SaveBatch", "Get", "GetURLsByUserID", "DeleteURLs"}
            => pair.memoryRet = pair.fileRet
    /\ pair.op = "FindByOriginalURL" =>
            LET live == {id \in DOMAIN pair.memory :
                            /\ pair.memory[id].OriginalURL = pair.args[1]
                            /\ ~pair.memory[id].IsDeleted}
            IN  /\ pair.memoryRet.err = pair.fileRet.err
                /\ pair.memoryRet.id \in FileFindByOriginalURL(urls, pair.args[1])
                /\ pair.fileRet.id \in MemFindByOriginalURL(pair.memory, pair.args[1])
                /\ Cardinality(live) <= 1 => pair.memoryRet = pair.fileRet

\* Both backends hold a deleted record and a live one, and Get of the
\* deleted id has found nothing on either, while a scheduleSave goroutine of
\* the FileStorage is about to write the copy of the map it took before the
\* record was deleted.
C39_Witness ==
    /\ pair.op = "Get"
    /\ pair.memoryRet = [url |-> "", found |-> FALSE]
    /\ pair.fileRet = [url |-> "", found |-> FALSE]
    /\ pair.args[1] \in DOMAIN urls
    /\ urls[pair.args[1]].IsDeleted
    /\ \E id \in DOMAIN pair.memory : ~pair.memory[id].IsDeleted
    /\ isDirty
    /\ \E f \in Range(Flushers) :
            /\ flusher[f].pc = "saveToFile_Encode"
            /\ flusher[f].entries # Entries(urls)

====
